---------------------------- MODULE Spec2Model ----------------------------
(***************************************************************************)
(* LearnCopilot RAG core: Inference Manager (llm_manager.py), Query Router *)
(* (query_router.py), Ingestion Pipeline (document_ingestion.py), Vector   *)
(* Store (vector_store.py), RAG Executor (rag_executor.py) and the /rag    *)
(* handlers that drive them (routers/rag_routes.py).                       *)
(*                                                                         *)
(* A Python str is a TLA+ string, read character by character with Len,    *)
(* SubSeq and \o, so substring tests, lower(), split() and slicing are     *)
(* computed as the code computes them.  Python's None (for an Optional     *)
(* str) is the reserved string NoneStr, which no text of the model equals. *)
(***************************************************************************)
EXTENDS Integers, Sequences, FiniteSets, TLC

VARIABLES
    \* ---- LLMManager (llm_manager.py:69-86)
    providers,            \* Dict[LLMProvider, ProviderConfig]
    provider_priority,    \* List[LLMProvider]
    total_requests,
    successful_requests,
    failed_requests,
    provider_usage,       \* Dict[LLMProvider, int]
    fallback_count,
    cache,                \* Dict[str, LLMResponse], in insertion order
    heap,                 \* the LLMResponse objects created so far
    calls,                \* the generate() coroutines, one per slot
    \* ---- VectorStore (vector_store.py:119-134)
    chunks,               \* Dict[str, DocumentChunk], in insertion order
    embeddings,           \* Dict[str, np.ndarray]
    by_subject,           \* Dict[str, List[str]], in insertion order
    by_doc_type,
    by_topic,
    embedder,             \* SimpleEmbedding
    total_retrievals,
    \* ---- DocumentIngestionPipeline (document_ingestion.py:140-149)
    pipeline,             \* chunk_size and chunk_overlap of the singleton
    clock,                \* datetime.utcnow(), in ticks
    ingested,             \* the documents the pipeline has produced, in order
    \* ---- /rag handlers (routers/rag_routes.py)
    queries,              \* the query_rag coroutines, one per slot
    reply                 \* the last HTTP exchange of a handler that does not suspend

llmVars == <<providers, provider_priority, total_requests, successful_requests,
             failed_requests, provider_usage, fallback_count, cache, heap, calls>>

storeVars == <<chunks, embeddings, by_subject, by_doc_type, by_topic, embedder,
               total_retrievals>>

ingestVars == <<pipeline, clock, ingested>>

ragVars == <<storeVars, ingestVars, queries, reply>>

vars == <<providers, provider_priority, total_requests, successful_requests,
          failed_requests, provider_usage, fallback_count, cache, heap, calls,
          chunks, embeddings, by_subject, by_doc_type, by_topic, embedder,
          total_retrievals, pipeline, clock, ingested, queries, reply>>

(***************************************************************************)
(* Bounds of the model.                                                    *)
(***************************************************************************)
MaxRequests == 2

\* generate() calls on a manager that holds the local responder only, whose
\* calls never suspend
MaxLocalRequests == 4

MaxUploads == 2

MaxQueries == 1

\* the largest chunk_size of the pipelines other than the singleton
MaxChunkSize == 3

(***************************************************************************)
(* Python values.                                                          *)
(***************************************************************************)
NoneStr == "<None>"

Truthy(s) == s # NoneStr /\ s # ""

\* system_prompt or ''
OrEmpty(s) == IF Truthy(s) THEN s ELSE ""

\* hashlib.md5(x.encode()).hexdigest(): the digest is taken to be collision
\* free, so two digests are equal exactly when the hashed strings are.
Md5Hex(s) == "md5:" \o s

\* needle in hay
Contains(hay, needle) ==
    \E i \in 1..(Len(hay) - Len(needle) + 1) :
        SubSeq(hay, i, i + Len(needle) - 1) = needle

(***************************************************************************)
(* LLMProvider and the provider registry.                                  *)
(***************************************************************************)
GROQ == "groq"
OPENROUTER == "openrouter"
OPENAI == "openai"
LOCAL_PROVIDER == "local"

LLMProvider == {GROQ, OPENROUTER, OPENAI, LOCAL_PROVIDER}

EnvKeys == {"GROQ_API_KEY", "OPENROUTER_API_KEY", "OPENAI_API_KEY"}

GroqConfig ==
    [provider |-> GROQ, default_model |-> "llama-3.3-70b-versatile",
     fallback_models |-> <<"llama-3.1-8b-instant", "mixtral-8x7b-32768">>]

OpenRouterConfig ==
    [provider |-> OPENROUTER,
     default_model |-> "meta-llama/llama-3.1-8b-instruct:free",
     fallback_models |-> <<"google/gemma-2-9b-it:free",
                           "mistralai/mistral-7b-instruct:free">>]

OpenAIConfig ==
    [provider |-> OPENAI, default_model |-> "gpt-3.5-turbo",
     fallback_models |-> <<"gpt-3.5-turbo-16k">>]

LocalConfig ==
    [provider |-> LOCAL_PROVIDER, default_model |-> "demo-model",
     fallback_models |-> <<>>]

ConfigOf(p) ==
    CASE p = GROQ -> GroqConfig
      [] p = OPENROUTER -> OpenRouterConfig
      [] p = OPENAI -> OpenAIConfig
      [] OTHER -> LocalConfig

\* A manager that registers the local responder only when no key is set.
InitPriorityLocalOptional(keys) ==
    IF keys = {} THEN <<LOCAL_PROVIDER>>
    ELSE (IF "GROQ_API_KEY" \in keys THEN <<GROQ>> ELSE <<>>)
         \o (IF "OPENROUTER_API_KEY" \in keys THEN <<OPENROUTER>> ELSE <<>>)
         \o (IF "OPENAI_API_KEY" \in keys THEN <<OPENAI>> ELSE <<>>)

\* _init_providers: the priority list for the API keys found in the environment
InitPriority(keys) ==
    (IF "GROQ_API_KEY" \in keys THEN <<GROQ>> ELSE <<>>)
    \o (IF "OPENROUTER_API_KEY" \in keys THEN <<OPENROUTER>> ELSE <<>>)
    \o (IF "OPENAI_API_KEY" \in keys THEN <<OPENAI>> ELSE <<>>)
    \o <<LOCAL_PROVIDER>>

\* _init_providers: the providers dict
InitProviders(keys) ==
    LET prio == InitPriority(keys)
        ps == {prio[i] : i \in 1..Len(prio)}
    IN [p \in ps |-> ConfigOf(p)]

\* A model list that tries the fallback models before the default model.
ModelsToTryFallbackFirst(config) ==
    config.fallback_models \o <<config.default_model>>

\* models_to_try = [config.default_model] + config.fallback_models
ModelsToTry(config) == <<config.default_model>> \o config.fallback_models

(***************************************************************************)
(* str.lower() and the words _local_response looks for.                    *)
(***************************************************************************)
UpperLetters == "ABCDEFGHIJKLMNOPQRSTUVWXYZ"

LowerLetters == "abcdefghijklmnopqrstuvwxyz"

\* s[i], for 1 <= i <= Len(s)
Char(s, i) == SubSeq(s, i, i)

\* the characters of a string, as a set
CharsOf(s) == {Char(s, i) : i \in 1..Len(s)}

UpperChars == CharsOf(UpperLetters)

LowerChars == CharsOf(LowerLetters)

IsUpperChar(c) == c \in UpperChars

IsLowerChar(c) == c \in LowerChars

\* c.lower() for every upper-case letter c
LowerOf ==
    [c \in UpperChars |->
        Char(LowerLetters, CHOOSE i \in 1..26 : Char(UpperLetters, i) = c)]

\* c.upper() for every lower-case letter c
UpperOf ==
    [c \in LowerChars |->
        Char(UpperLetters, CHOOSE i \in 1..26 : Char(LowerLetters, i) = c)]

LowerChar(c) == IF IsUpperChar(c) THEN LowerOf[c] ELSE c

UpperChar(c) == IF IsLowerChar(c) THEN UpperOf[c] ELSE c

\* s[lo..hi].lower(), where upper holds the positions of the upper-case
\* letters of s
RECURSIVE LowerRange(_, _, _, _)
LowerRange(s, upper, lo, hi) ==
    IF lo > hi THEN ""
    ELSE IF \A i \in upper : i < lo \/ i > hi THEN SubSeq(s, lo, hi)
    ELSE IF lo = hi THEN LowerChar(Char(s, lo))
    ELSE LowerRange(s, upper, lo, (lo + hi) \div 2)
         \o LowerRange(s, upper, (lo + hi) \div 2 + 1, hi)

\* s.lower()
Lower(s) ==
    LowerRange(s, {i \in 1..Len(s) : IsUpperChar(Char(s, i))}, 1, Len(s))

(***************************************************************************)
(* LLMResponse objects.  content is a payload the core never inspects: it  *)
(* is modelled by a label naming the text (one of the four canned texts of *)
(* _local_response, or a text an external provider sent).                  *)
(***************************************************************************)
LLMResponse(content, provider, model, tokens_used) ==
    [content |-> content, provider |-> provider, model |-> model,
     tokens_used |-> tokens_used, cached |-> FALSE]

\* _local_response: the canned text is picked by cues in prompt.lower();
\* tokens_used = len(content.split()) of that text.
LocalResponse(prompt, system_prompt) ==
    LET prompt_lower == Lower(prompt) IN
    IF Contains(prompt_lower, "explain") \/ Contains(prompt_lower, "what is")
    THEN LLMResponse("LOCAL_EXPLANATION", LOCAL_PROVIDER, "demo-model", 60)
    ELSE IF Contains(prompt_lower, "example")
    THEN LLMResponse("LOCAL_EXAMPLE", LOCAL_PROVIDER, "demo-model", 48)
    ELSE IF Contains(prompt_lower, "lab") \/ Contains(prompt_lower, "practical")
    THEN LLMResponse("LOCAL_LAB_PROCEDURE", LOCAL_PROVIDER, "demo-model", 55)
    ELSE LLMResponse("LOCAL_GENERIC", LOCAL_PROVIDER, "demo-model", 61)

\* What an external provider may send back (data["choices"][0]["message"]
\* ["content"], data["usage"]["total_tokens"]).
ExternalContents == {"EXTERNAL_TEXT"}

\* _cache_key
CacheKey(prompt, system_prompt) == Md5Hex(OrEmpty(system_prompt) \o prompt)

\* self.cache_enabled = True, never reassigned
cache_enabled == TRUE

\* self.cache_max_size is 1000 in the source; the model's manager is built
\* with a small capacity so that a full cache is reached within MaxRequests.
cache_max_size == 2

CacheKeys(c) == {c[i].key : i \in 1..Len(c)}

CacheIndex(c, key) == CHOOSE i \in 1..Len(c) : c[i].key = key

\* self.cache[key]
CacheGet(c, key) == c[CacheIndex(c, key)].rid

\* self.cache[key] = response: an existing key keeps its place in the dict
CacheSet(c, key, rid) ==
    IF key \in CacheKeys(c)
    THEN [c EXCEPT ![CacheIndex(c, key)] = [key |-> key, rid |-> rid]]
    ELSE Append(c, [key |-> key, rid |-> rid])

\* oldest = next(iter(self.cache)), the local of _add_to_cache; None when the
\* cache is below its capacity
Oldest(c) == IF Len(c) >= cache_max_size THEN Head(c).key ELSE NoneStr

\* A cache that makes room by dropping its newest entry.
AddToCacheEvictsNewest(c, key, rid) ==
    IF Len(c) >= cache_max_size
    THEN CacheSet(SubSeq(c, 1, Len(c) - 1), key, rid)
    ELSE CacheSet(c, key, rid)

\* _add_to_cache
AddToCache(c, key, rid) ==
    IF Len(c) >= cache_max_size
    THEN CacheSet(Tail(c), key, rid)
    ELSE CacheSet(c, key, rid)

(***************************************************************************)
(* generate().  A coroutine runs without interruption up to the next await *)
(* that really suspends: the HTTP call of an external provider.  The local *)
(* responder's _call_provider returns without suspending.                  *)
(***************************************************************************)
CallIds == {1, 2}

IdleCall ==
    [pc |-> "idle", prompt |-> "", system_prompt |-> NoneStr,
     use_cache |-> FALSE, cache_key |-> NoneStr, pi |-> 0, mi |-> 0,
     last_error |-> <<>>, attempts |-> <<>>, result |-> 0, hit |-> FALSE,
     raised |-> <<>>, req |-> 0, oldest |-> NoneStr]

\* The exception of one failed attempt.
ProviderError(provider, model) == <<"ProviderError", provider, model>>

\* The next (provider, model) pair of the two nested loops at or after
\* position (pi, mi); pi = 0 when the loops are exhausted.
RECURSIVE SeekPair(_, _)
SeekPair(pi, mi) ==
    IF pi > Len(provider_priority) THEN [pi |-> 0, mi |-> 0]
    ELSE IF provider_priority[pi] \notin DOMAIN providers
    THEN SeekPair(pi + 1, 1)
    ELSE IF mi > Len(ModelsToTry(providers[provider_priority[pi]]))
    THEN SeekPair(pi + 1, 1)
    ELSE [pi |-> pi, mi |-> mi]

\* A loop that gives up on a provider after its first failed model.
AfterFailureNextProvider(pi, mi) == SeekPair(pi + 1, 1)

\* After a failed attempt at (pi, mi) the inner loop continues with the
\* next model.
AfterFailure(pi, mi) == SeekPair(pi, mi + 1)

\* The slots of coroutines that are suspended in a provider call keep their
\* records; a finished coroutine's record is kept, for inspection, until the
\* next generate() call begins.
Collected(cs) ==
    [d \in CallIds |-> IF cs[d].pc = "awaiting" THEN cs[d] ELSE IdleCall]

\* A usage count that credits the provider first in line, whoever answered.
CountUseOfFirstChoice(usage, p) ==
    LET first == provider_priority[1]
    IN [q \in DOMAIN usage \cup {first} |->
           IF q = first
           THEN (IF first \in DOMAIN usage THEN usage[first] ELSE 0) + 1
           ELSE usage[q]]

\* self.provider_usage[provider] = self.provider_usage.get(provider, 0) + 1
CountUse(usage, p) ==
    [q \in DOMAIN usage \cup {p} |->
        IF q = p
        THEN (IF p \in DOMAIN usage THEN usage[p] ELSE 0) + 1
        ELSE usage[q]]

\* llm_manager.py:198-205: a provider call returned `resp`
\* A success path that counts the request as successful only when no attempt
\* before the successful one failed.
SucceedCountsFirstTryOnly(cs, c, rec, resp) ==
    LET rid == Len(heap) + 1
        p == provider_priority[rec.pi]
    IN /\ heap' = Append(heap, resp)
       /\ successful_requests' =
             IF rec.attempts = <<>> THEN successful_requests + 1
             ELSE successful_requests
       /\ provider_usage' = CountUse(provider_usage, p)
       /\ cache' = IF rec.use_cache /\ cache_enabled
                   THEN AddToCache(cache, rec.cache_key, rid)
                   ELSE cache
       /\ calls' = [cs EXCEPT ![c] =
                      [rec EXCEPT !.pc = "returned", !.result = rid,
                                  !.oldest = IF rec.use_cache /\ cache_enabled
                                             THEN Oldest(cache) ELSE NoneStr,
                                  !.attempts = Append(rec.attempts,
                                      [provider |-> p,
                                       model |-> ModelsToTry(providers[p])[rec.mi],
                                       ok |-> TRUE, rid |-> rid])]]
       /\ UNCHANGED failed_requests

Succeed(cs, c, rec, resp) ==
    LET rid == Len(heap) + 1
        p == provider_priority[rec.pi]
    IN /\ heap' = Append(heap, resp)
       /\ successful_requests' = successful_requests + 1
       /\ provider_usage' = CountUse(provider_usage, p)
       /\ cache' = IF rec.use_cache /\ cache_enabled
                   THEN AddToCache(cache, rec.cache_key, rid)
                   ELSE cache
       /\ calls' = [cs EXCEPT ![c] =
                      [rec EXCEPT !.pc = "returned", !.result = rid,
                                  !.oldest = IF rec.use_cache /\ cache_enabled
                                             THEN Oldest(cache) ELSE NoneStr,
                                  !.attempts = Append(rec.attempts,
                                      [provider |-> p,
                                       model |-> ModelsToTry(providers[p])[rec.mi],
                                       ok |-> TRUE, rid |-> rid])]]
       /\ UNCHANGED failed_requests

\* Exception(f"All LLM providers failed. Last error: {last_error}")
AllProvidersFailed(last_error) ==
    <<"All LLM providers failed. Last error: ", last_error>>

\* A failure path that leaves a placeholder for the answer in the cache.
FailAllCachesPlaceholder(cs, c, rec) ==
    /\ failed_requests' = failed_requests + 1
    /\ calls' = [cs EXCEPT ![c] =
                   [rec EXCEPT !.pc = "raised",
                               !.raised = AllProvidersFailed(rec.last_error)]]
    /\ cache' = IF rec.use_cache /\ cache_enabled
                THEN AddToCache(cache, rec.cache_key, 0)
                ELSE cache
    /\ UNCHANGED <<successful_requests, provider_usage, heap>>

\* llm_manager.py:212-214: the loops are exhausted
FailAll(cs, c, rec) ==
    /\ failed_requests' = failed_requests + 1
    /\ calls' = [cs EXCEPT ![c] =
                   [rec EXCEPT !.pc = "raised",
                               !.raised = AllProvidersFailed(rec.last_error)]]
    /\ UNCHANGED <<successful_requests, provider_usage, cache, heap>>

\* Run the loops from position `pos` up to the next suspension or the end.
Resume(cs, c, rec, pos) ==
    IF pos.pi = 0 THEN FailAll(cs, c, rec)
    ELSE IF providers[provider_priority[pos.pi]].provider = LOCAL_PROVIDER
    THEN Succeed(cs, c, [rec EXCEPT !.pi = pos.pi, !.mi = pos.mi],
                 LocalResponse(rec.prompt, rec.system_prompt))
    ELSE /\ calls' = [cs EXCEPT ![c] =
                        [rec EXCEPT !.pc = "awaiting", !.pi = pos.pi, !.mi = pos.mi]]
         /\ UNCHANGED <<successful_requests, failed_requests, provider_usage,
                        cache, heap>>

\* The number of generate() calls the model follows on the manager at hand.
RequestBound ==
    IF provider_priority = <<LOCAL_PROVIDER>> THEN MaxLocalRequests ELSE MaxRequests

\* llm_manager.py:166-196: generate() is called; on a cache hit it returns
\* the stored object after setting its cached flag.
Generate(c, prompt, system_prompt, use_cache) ==
    /\ calls[c].pc \in {"idle", "returned", "raised", "cancelled"}
    /\ \A d \in CallIds : d < c => calls[d].pc = "awaiting"
    /\ total_requests < RequestBound
    /\ total_requests' = total_requests + 1
    /\ UNCHANGED <<providers, provider_priority, fallback_count>>
    /\ LET key == IF use_cache /\ cache_enabled
                  THEN CacheKey(prompt, system_prompt) ELSE NoneStr
           rec == [IdleCall EXCEPT !.prompt = prompt,
                                   !.system_prompt = system_prompt,
                                   !.use_cache = use_cache,
                                   !.cache_key = key,
                                   !.req = total_requests + 1]
       IN IF use_cache /\ cache_enabled /\ key \in CacheKeys(cache)
          THEN /\ heap' = [heap EXCEPT ![CacheGet(cache, key)].cached = TRUE]
               /\ calls' = [Collected(calls) EXCEPT ![c] =
                              [rec EXCEPT !.pc = "returned", !.hit = TRUE,
                                          !.result = CacheGet(cache, key)]]
               /\ UNCHANGED <<successful_requests, failed_requests,
                              provider_usage, cache>>
          ELSE Resume(Collected(calls), c, rec, SeekPair(1, 1))

(***************************************************************************)
(* Query Router (query_router.py).  Each regular expression of the three   *)
(* pattern lists has one of the shapes  \bA  |  \bA\b  |  \bA\b.*\bB  |    *)
(* \bA\b.*\bB\b  |  \bA\s*B  with A and B alternations of literals; a      *)
(* table row holds the parts, and Search decides re.search exactly for     *)
(* these shapes.  Confidences are in hundredths (85 is 0.85).              *)
(***************************************************************************)
RAG == "rag"

ALGORITHMIC == "algorithmic"

REASONING_LLM == "reasoning_llm"

HYBRID == "hybrid"

rag_patterns ==
    <<
      \* r'\b(what is|define|explain|describe)\b.*\b(concept|theory|principle|law)\b'
      [first |-> {"what is", "define", "explain", "describe"}, b1e |-> TRUE,
       gap |-> "dotstar", second |-> {"concept", "theory", "principle", "law"},
       b2s |-> TRUE, b2e |-> TRUE, intent |-> "theory_explanation"],
      \* r'\b(what are|list|give)\b.*\b(types|kinds|categories|examples)\b'
      [first |-> {"what are", "list", "give"}, b1e |-> TRUE,
       gap |-> "dotstar", second |-> {"types", "kinds", "categories", "examples"},
       b2s |-> TRUE, b2e |-> TRUE, intent |-> "theory_explanation"],
      \* r'\bexplain\b'
      [first |-> {"explain"}, b1e |-> TRUE,
       gap |-> "none", second |-> {},
       b2s |-> FALSE, b2e |-> FALSE, intent |-> "concept_clarification"],
      \* r'\bwhat is\b'
      [first |-> {"what is"}, b1e |-> TRUE,
       gap |-> "none", second |-> {},
       b2s |-> FALSE, b2e |-> FALSE, intent |-> "definition_lookup"],
      \* r'\bdefine\b'
      [first |-> {"define"}, b1e |-> TRUE,
       gap |-> "none", second |-> {},
       b2s |-> FALSE, b2e |-> FALSE, intent |-> "definition_lookup"],
      \* r'\bmeaning of\b'
      [first |-> {"meaning of"}, b1e |-> TRUE,
       gap |-> "none", second |-> {},
       b2s |-> FALSE, b2e |-> FALSE, intent |-> "definition_lookup"],
      \* r'\b(give|show|provide)\b.*\bexample'
      [first |-> {"give", "show", "provide"}, b1e |-> TRUE,
       gap |-> "dotstar", second |-> {"example"},
       b2s |-> TRUE, b2e |-> FALSE, intent |-> "example_request"],
      \* r'\bfor example\b'
      [first |-> {"for example"}, b1e |-> TRUE,
       gap |-> "none", second |-> {},
       b2s |-> FALSE, b2e |-> FALSE, intent |-> "example_request"],
      \* r'\billustrate\b'
      [first |-> {"illustrate"}, b1e |-> TRUE,
       gap |-> "none", second |-> {},
       b2s |-> FALSE, b2e |-> FALSE, intent |-> "example_request"],
      \* r'\b(procedure|steps|how to)\b.*\b(lab|experiment|practical)\b'
      [first |-> {"procedure", "steps", "how to"}, b1e |-> TRUE,
       gap |-> "dotstar", second |-> {"lab", "experiment", "practical"},
       b2s |-> TRUE, b2e |-> TRUE, intent |-> "lab_procedure"],
      \* r'\blab\b.*\b(manual|procedure|experiment)\b'
      [first |-> {"lab"}, b1e |-> TRUE,
       gap |-> "dotstar", second |-> {"manual", "procedure", "experiment"},
       b2s |-> TRUE, b2e |-> TRUE, intent |-> "lab_procedure"],
      \* r'\bpractical\b.*\b(steps|procedure)\b'
      [first |-> {"practical"}, b1e |-> TRUE,
       gap |-> "dotstar", second |-> {"steps", "procedure"},
       b2s |-> TRUE, b2e |-> TRUE, intent |-> "lab_procedure"],
      \* r'\b(exam|test|quiz)\b.*\bquestion'
      [first |-> {"exam", "test", "quiz"}, b1e |-> TRUE,
       gap |-> "dotstar", second |-> {"question"},
       b2s |-> TRUE, b2e |-> FALSE, intent |-> "exam_question"],
      \* r'\bprevious year\b'
      [first |-> {"previous year"}, b1e |-> TRUE,
       gap |-> "none", second |-> {},
       b2s |-> FALSE, b2e |-> FALSE, intent |-> "exam_question"],
      \* r'\bimportant questions\b'
      [first |-> {"important questions"}, b1e |-> TRUE,
       gap |-> "none", second |-> {},
       b2s |-> FALSE, b2e |-> FALSE, intent |-> "exam_question"],
      \* r'\bmark\s*question'
      [first |-> {"mark"}, b1e |-> FALSE,
       gap |-> "spaces", second |-> {"question"},
       b2s |-> FALSE, b2e |-> FALSE, intent |-> "exam_question"]
    >>

algorithmic_patterns ==
    <<
      \* r'\b(schedule|plan|organize)\b.*\b(study|learning|exam)\b'
      [first |-> {"schedule", "plan", "organize"}, b1e |-> TRUE,
       gap |-> "dotstar", second |-> {"study", "learning", "exam"},
       b2s |-> TRUE, b2e |-> TRUE, intent |-> "plan_generation"],
      \* r'\bmy progress\b'
      [first |-> {"my progress"}, b1e |-> TRUE,
       gap |-> "none", second |-> {},
       b2s |-> FALSE, b2e |-> FALSE, intent |-> "progress_check"],
      \* r'\bhow much\b.*\b(completed|done|learned)\b'
      [first |-> {"how much"}, b1e |-> TRUE,
       gap |-> "dotstar", second |-> {"completed", "done", "learned"},
       b2s |-> TRUE, b2e |-> TRUE, intent |-> "progress_check"],
      \* r'\banalyze\b.*\b(performance|score|grade)\b'
      [first |-> {"analyze"}, b1e |-> TRUE,
       gap |-> "dotstar", second |-> {"performance", "score", "grade"},
       b2s |-> TRUE, b2e |-> TRUE, intent |-> "analytics_request"],
      \* r'\bstatistics\b'
      [first |-> {"statistics"}, b1e |-> TRUE,
       gap |-> "none", second |-> {},
       b2s |-> FALSE, b2e |-> FALSE, intent |-> "analytics_request"],
      \* r'\bwhen should\b.*\bstudy\b'
      [first |-> {"when should"}, b1e |-> TRUE,
       gap |-> "dotstar", second |-> {"study"},
       b2s |-> TRUE, b2e |-> TRUE, intent |-> "schedule_query"],
      \* r'\btime management\b'
      [first |-> {"time management"}, b1e |-> TRUE,
       gap |-> "none", second |-> {},
       b2s |-> FALSE, b2e |-> FALSE, intent |-> "schedule_query"]
    >>

reasoning_patterns ==
    <<
      \* r'\b(write|generate|create)\b.*\bcode\b'
      [first |-> {"write", "generate", "create"}, b1e |-> TRUE,
       gap |-> "dotstar", second |-> {"code"},
       b2s |-> TRUE, b2e |-> TRUE, intent |-> "code_generation"],
      \* r'\b(implement|program)\b'
      [first |-> {"implement", "program"}, b1e |-> TRUE,
       gap |-> "none", second |-> {},
       b2s |-> FALSE, b2e |-> FALSE, intent |-> "code_generation"],
      \* r'\bsolve\b.*\b(problem|equation|exercise)\b'
      [first |-> {"solve"}, b1e |-> TRUE,
       gap |-> "dotstar", second |-> {"problem", "equation", "exercise"},
       b2s |-> TRUE, b2e |-> TRUE, intent |-> "problem_solving"],
      \* r'\bcalculate\b'
      [first |-> {"calculate"}, b1e |-> TRUE,
       gap |-> "none", second |-> {},
       b2s |-> FALSE, b2e |-> FALSE, intent |-> "problem_solving"],
      \* r'\b(compare|contrast|difference)\b.*\bbetween\b'
      [first |-> {"compare", "contrast", "difference"}, b1e |-> TRUE,
       gap |-> "dotstar", second |-> {"between"},
       b2s |-> TRUE, b2e |-> TRUE, intent |-> "comparison_analysis"],
      \* r'\b(pros and cons|advantages|disadvantages)\b'
      [first |-> {"pros and cons", "advantages", "disadvantages"}, b1e |-> TRUE,
       gap |-> "none", second |-> {},
       b2s |-> FALSE, b2e |-> FALSE, intent |-> "comparison_analysis"],
      \* r'\bwhy\b.*\b(better|worse|important)\b'
      [first |-> {"why"}, b1e |-> TRUE,
       gap |-> "dotstar", second |-> {"better", "worse", "important"},
       b2s |-> TRUE, b2e |-> TRUE, intent |-> "critical_thinking"],
      \* r'\bwhat if\b'
      [first |-> {"what if"}, b1e |-> TRUE,
       gap |-> "none", second |-> {},
       b2s |-> FALSE, b2e |-> FALSE, intent |-> "critical_thinking"],
      \* r'\banalyze\b.*\b(critically|deeply)\b'
      [first |-> {"analyze"}, b1e |-> TRUE,
       gap |-> "dotstar", second |-> {"critically", "deeply"},
       b2s |-> TRUE, b2e |-> TRUE, intent |-> "critical_thinking"]
    >>

subject_keywords ==
    <<
      [subject |-> "computer science",
       keywords |-> <<"algorithm", "programming", "data structure", "software", "code", "database", "network">>],
      [subject |-> "physics",
       keywords |-> <<"force", "energy", "motion", "wave", "electricity", "magnetic", "quantum", "thermodynamics">>],
      [subject |-> "chemistry",
       keywords |-> <<"reaction", "element", "compound", "organic", "inorganic", "acid", "base", "bond">>],
      [subject |-> "mathematics",
       keywords |-> <<"equation", "formula", "theorem", "proof", "calculus", "algebra", "geometry">>],
      [subject |-> "biology",
       keywords |-> <<"cell", "organism", "gene", "evolution", "ecosystem", "anatomy", "protein">>],
      [subject |-> "electronics",
       keywords |-> <<"circuit", "transistor", "amplifier", "signal", "digital", "analog", "microprocessor">>]
    >>

reasoning_map ==
    <<
      [intent |-> "theory_explanation", route |-> "rag",
       text |-> "Query asks for academic theory - using document retrieval for accurate, grounded answer."],
      [intent |-> "concept_clarification", route |-> "rag",
       text |-> "Query seeks concept clarification - retrieving relevant study materials."],
      [intent |-> "definition_lookup", route |-> "rag",
       text |-> "Query is a definition request - searching indexed documents."],
      [intent |-> "example_request", route |-> "rag",
       text |-> "Query asks for examples - retrieving from study materials."],
      [intent |-> "lab_procedure", route |-> "rag",
       text |-> "Query about lab procedure - retrieving from lab manuals."],
      [intent |-> "exam_question", route |-> "rag",
       text |-> "Query about exam questions - searching question banks."],
      [intent |-> "schedule_query", route |-> "algorithmic",
       text |-> "Query about scheduling - using algorithmic planning."],
      [intent |-> "progress_check", route |-> "algorithmic",
       text |-> "Query about progress - computing from user analytics."],
      [intent |-> "analytics_request", route |-> "algorithmic",
       text |-> "Query requests analytics - computing statistics."],
      [intent |-> "plan_generation", route |-> "algorithmic",
       text |-> "Query for study plan - using planning algorithms."],
      [intent |-> "code_generation", route |-> "reasoning_llm",
       text |-> "Query requires code generation - using reasoning LLM."],
      [intent |-> "problem_solving", route |-> "hybrid",
       text |-> "Query requires problem solving - combining documents with reasoning."],
      [intent |-> "comparison_analysis", route |-> "hybrid",
       text |-> "Query requires comparison - retrieving facts then analyzing."],
      [intent |-> "critical_thinking", route |-> "reasoning_llm",
       text |-> "Query requires critical analysis - using reasoning LLM."],
      [intent |-> "general_chat", route |-> "reasoning_llm",
       text |-> "General query - using conversational LLM."]
    >>

\* str.isspace() for one character, and the class \s
WhitespaceChars == {" ", "\t", "\n", "\r", "\f"}

\* the class \w, for one character
WordChars == "abcdefghijklmnopqrstuvwxyzABCDEFGHIJKLMNOPQRSTUVWXYZ0123456789_"

WordCharSet == CharsOf(WordChars)

IsWordChar(c) == c \in WordCharSet

\* the character at position p, "" outside the string
CharOrEnd(s, p) == IF p >= 1 /\ p <= Len(s) THEN Char(s, p) ELSE ""

\* \b holds between positions p-1 and p
WordBoundary(s, p) ==
    IsWordChar(CharOrEnd(s, p - 1)) # IsWordChar(CharOrEnd(s, p))

\* the literal lit occurs in s at position i
StartsAt(s, i, lit) ==
    /\ i + Len(lit) - 1 <= Len(s)
    /\ SubSeq(s, i, i + Len(lit) - 1) = lit

\* s.strip()
RECURSIVE Strip(_)
Strip(s) ==
    IF Len(s) = 0 THEN s
    ELSE IF Char(s, 1) \in WhitespaceChars THEN Strip(SubSeq(s, 2, Len(s)))
    ELSE IF Char(s, Len(s)) \in WhitespaceChars THEN Strip(SubSeq(s, 1, Len(s) - 1))
    ELSE s

\* what the gap between A and B may consume: .* takes anything but a
\* newline, \s* takes whitespace
GapAllows(gap, c) ==
    IF gap = "dotstar" THEN c # "\n" ELSE c \in WhitespaceChars

\* re.search(pattern, s, re.IGNORECASE) is not None, for s in lower case
Search(pat, s) ==
    \E i \in 1..Len(s) : \E a \in pat.first :
        /\ StartsAt(s, i, a)
        /\ WordBoundary(s, i)
        /\ pat.b1e => WordBoundary(s, i + Len(a))
        /\ pat.gap # "none" =>
             \E j \in (i + Len(a))..Len(s) : \E b \in pat.second :
                /\ \A k \in (i + Len(a))..(j - 1) : GapAllows(pat.gap, Char(s, k))
                /\ pat.b2s => WordBoundary(s, j)
                /\ StartsAt(s, j, b)
                /\ pat.b2e => WordBoundary(s, j + Len(b))

\* the index of the first pattern of the list that matches, 0 if none does
FirstMatch(patterns, query) ==
    IF \E k \in 1..Len(patterns) : Search(patterns[k], query)
    THEN CHOOSE k \in 1..Len(patterns) :
            /\ Search(patterns[k], query)
            /\ \A m \in 1..(k - 1) : ~Search(patterns[m], query)
    ELSE 0

academic_indicators ==
    <<"learn", "study", "understand", "concept", "topic", "chapter", "subject">>

\* any(x in text for x in words)
AnyIn(words, text) == \E k \in 1..Len(words) : Contains(text, words[k])

Classified(intent, route, confidence) ==
    [intent |-> intent, route |-> route, confidence |-> confidence]

\* A router that sends every reasoning intent to the reasoning LLM.
ClassifyQueryNoHybrid(query) ==
    LET g == FirstMatch(rag_patterns, query)
        a == FirstMatch(algorithmic_patterns, query)
        r == FirstMatch(reasoning_patterns, query)
    IN IF g # 0 THEN Classified(rag_patterns[g].intent, RAG, 85)
       ELSE IF a # 0 THEN Classified(algorithmic_patterns[a].intent, ALGORITHMIC, 80)
       ELSE IF r # 0 THEN Classified(reasoning_patterns[r].intent, REASONING_LLM, 80)
       ELSE IF AnyIn(academic_indicators, query)
       THEN Classified("concept_clarification", RAG, 60)
       ELSE Classified("general_chat", REASONING_LLM, 50)

\* A router that tries the planning/analytics patterns before the
\* document-grounded ones.
ClassifyQueryAlgorithmicFirst(query) ==
    LET g == FirstMatch(rag_patterns, query)
        a == FirstMatch(algorithmic_patterns, query)
        r == FirstMatch(reasoning_patterns, query)
    IN IF a # 0 THEN Classified(algorithmic_patterns[a].intent, ALGORITHMIC, 80)
       ELSE IF g # 0 THEN Classified(rag_patterns[g].intent, RAG, 85)
       ELSE IF r # 0
       THEN IF reasoning_patterns[r].intent \in {"problem_solving", "comparison_analysis"}
            THEN Classified(reasoning_patterns[r].intent, HYBRID, 75)
            ELSE Classified(reasoning_patterns[r].intent, REASONING_LLM, 80)
       ELSE IF AnyIn(academic_indicators, query)
       THEN Classified("concept_clarification", RAG, 60)
       ELSE Classified("general_chat", REASONING_LLM, 50)

\* _classify_query
ClassifyQuery(query) ==
    LET g == FirstMatch(rag_patterns, query)
        a == FirstMatch(algorithmic_patterns, query)
        r == FirstMatch(reasoning_patterns, query)
    IN IF g # 0 THEN Classified(rag_patterns[g].intent, RAG, 85)
       ELSE IF a # 0 THEN Classified(algorithmic_patterns[a].intent, ALGORITHMIC, 80)
       ELSE IF r # 0
       THEN IF reasoning_patterns[r].intent \in {"problem_solving", "comparison_analysis"}
            THEN Classified(reasoning_patterns[r].intent, HYBRID, 75)
            ELSE Classified(reasoning_patterns[r].intent, REASONING_LLM, 80)
       ELSE IF AnyIn(academic_indicators, query)
       THEN Classified("concept_clarification", RAG, 60)
       ELSE Classified("general_chat", REASONING_LLM, 50)

\* _generate_reasoning
GenerateReasoning(intent, route) ==
    IF \E k \in 1..Len(reasoning_map) :
          reasoning_map[k].intent = intent /\ reasoning_map[k].route = route
    THEN reasoning_map[CHOOSE k \in 1..Len(reasoning_map) :
            reasoning_map[k].intent = intent /\ reasoning_map[k].route = route].text
    ELSE "Routing to " \o route \o " based on query analysis."

\* A dict is a function on its keys; {} is the empty function.
EmptyDict == <<>>

\* the subject of the first entry of subject_keywords one of whose keywords
\* occurs in the query, as a dict update
DetectedSubject(query) ==
    IF \E k \in 1..Len(subject_keywords) : AnyIn(subject_keywords[k].keywords, query)
    THEN "subject" :>
            subject_keywords[CHOOSE k \in 1..Len(subject_keywords) :
                /\ AnyIn(subject_keywords[k].keywords, query)
                /\ \A m \in 1..(k - 1) : ~AnyIn(subject_keywords[m].keywords, query)].subject
    ELSE EmptyDict

\* _suggest_filters
SuggestFilters(query, context) ==
    LET subject == IF "current_subject" \in DOMAIN context
                   THEN "subject" :> context["current_subject"]
                   ELSE DetectedSubject(query)
        doc_type == IF AnyIn(<<"lab", "practical", "experiment">>, query)
                    THEN "doc_type" :> "lab_manual"
                    ELSE IF AnyIn(<<"exam", "question", "previous year">>, query)
                    THEN "doc_type" :> "exam_paper"
                    ELSE IF AnyIn(<<"theory", "concept", "principle">>, query)
                    THEN "doc_type" :> "theory"
                    ELSE EmptyDict
        topic == IF "current_topic" \in DOMAIN context
                 THEN "topic" :> context["current_topic"]
                 ELSE EmptyDict
    IN subject @@ doc_type @@ topic

\* route(): `context or {}` makes None the empty dict
Route(query, context) ==
    LET query_lower == Strip(Lower(query))
        ctx == context
        c == ClassifyQuery(query_lower)
    IN [route |-> c.route, intent |-> c.intent, confidence |-> c.confidence,
        reasoning |-> GenerateReasoning(c.intent, c.route),
        suggested_filters |-> SuggestFilters(query_lower, ctx)]

\* {"current_subject": subject} if subject else None
SubjectContext(subject) ==
    IF Truthy(subject) THEN "current_subject" :> subject ELSE EmptyDict

(***************************************************************************)
(* More of Python's str.                                                   *)
(***************************************************************************)
\* s[:n]
Prefix(s, n) == IF Len(s) <= n THEN s ELSE SubSeq(s, 1, n)

\* the elements of a set of positions in increasing order
Ascending(S) ==
    [k \in 1..Cardinality(S) |->
        CHOOSE i \in S : Cardinality({j \in S : j < i}) = k - 1]

\* s.split(): the maximal runs of characters that are not whitespace
Split(s) ==
    LET IsText(i) == i >= 1 /\ i <= Len(s) /\ Char(s, i) \notin WhitespaceChars
        first == Ascending({i \in 1..Len(s) : IsText(i) /\ ~IsText(i - 1)})
        last == Ascending({i \in 1..Len(s) : IsText(i) /\ ~IsText(i + 1)})
    IN [k \in 1..Len(first) |-> SubSeq(s, first[k], last[k])]

\* sep.join(parts)
RECURSIVE Join(_, _)
Join(parts, sep) ==
    IF parts = <<>> THEN ""
    ELSE IF Len(parts) = 1 THEN parts[1]
    ELSE parts[1] \o sep \o Join(Tail(parts), sep)

\* s.split('\n') when min_run = 1, re.split(r'\n\n+', s) when min_run = 2:
\* the pieces between the separators, empty pieces included; a separator is
\* one newline, or a maximal run of two or more newlines
SplitNewlines(s, min_run) ==
    LET IsNewline(i) == i >= 1 /\ i <= Len(s) /\ Char(s, i) = "\n"
        first == Ascending({i \in 1..Len(s) :
                    /\ IsNewline(i)
                    /\ min_run = 2 => ~IsNewline(i - 1) /\ IsNewline(i + 1)})
        last == Ascending({i \in 1..Len(s) :
                    /\ IsNewline(i)
                    /\ min_run = 2 => IsNewline(i - 1) /\ ~IsNewline(i + 1)})
    IN [k \in 1..(Len(first) + 1) |->
          SubSeq(s, IF k = 1 THEN 1 ELSE last[k - 1] + 1,
                    IF k = Len(first) + 1 THEN Len(s) ELSE first[k] - 1)]

IsCased(c) == IsUpperChar(c) \/ IsLowerChar(c)

\* s.title()
RECURSIVE TitleScan(_, _, _)
TitleScan(s, i, acc) ==
    IF i > Len(s) THEN acc
    ELSE TitleScan(s, i + 1,
            acc \o (IF i > 1 /\ IsCased(Char(s, i - 1))
                    THEN LowerChar(Char(s, i))
                    ELSE UpperChar(Char(s, i))))

Title(s) == TitleScan(s, 1, "")

\* s.isupper()
IsUpper(s) ==
    /\ \E i \in 1..Len(s) : IsUpperChar(Char(s, i))
    /\ \A i \in 1..Len(s) : ~IsLowerChar(Char(s, i))

\* s.istitle()
IsTitle(s) ==
    /\ \E i \in 1..Len(s) : IsCased(Char(s, i))
    /\ \A i \in 1..Len(s) :
          /\ IsUpperChar(Char(s, i)) => ~(i > 1 /\ IsCased(Char(s, i - 1)))
          /\ IsLowerChar(Char(s, i)) => (i > 1 /\ IsCased(Char(s, i - 1)))

\* the positions of character c in s
Positions(s, c) == {i \in 1..Len(s) : Char(s, i) = c}

\* os.path.basename(path)
Basename(path) ==
    IF Positions(path, "/") = {} THEN path
    ELSE SubSeq(path,
                1 + (CHOOSE i \in Positions(path, "/") :
                        \A j \in Positions(path, "/") : j <= i),
                Len(path))

\* os.path.splitext(name)[0] for a name without directories: the extension
\* starts at the last dot unless only dots precede it
SplitExtRoot(name) ==
    IF Positions(name, ".") = {} THEN name
    ELSE LET d == CHOOSE i \in Positions(name, ".") :
                    \A j \in Positions(name, ".") : j <= i
         IN IF \E k \in 1..(d - 1) : Char(name, k) # "." THEN SubSeq(name, 1, d - 1)
            ELSE name

\* re.sub(r'[_-]', ' ', s)
RECURSIVE UnderscoresToSpaces(_)
UnderscoresToSpaces(s) ==
    IF Len(s) = 0 THEN ""
    ELSE (IF Char(s, 1) \in {"_", "-"} THEN " " ELSE Char(s, 1))
         \o UnderscoresToSpaces(SubSeq(s, 2, Len(s)))

\* hashlib.sha256(x.encode()).hexdigest(), taken to be collision free
Sha256Hex(s) == "sha256:" \o s

(***************************************************************************)
(* Ingestion Pipeline (document_ingestion.py).  Enum members are their     *)
(* values.  A timestamp is the tick of the clock at which the ingestion    *)
(* runs; processing_time, a wall-clock duration, is not modelled.          *)
(***************************************************************************)
DOC_TYPE_KEYWORDS ==
    <<
      [doc_type |-> "syllabus",
       keywords |-> <<"syllabus", "course outline", "course structure",
                     "learning objectives", "course schedule",
                     "grading scheme", "prerequisites",
                     "course description">>],
      [doc_type |-> "notes",
       keywords |-> <<"lecture", "notes", "chapter", "unit", "module",
                     "introduction to", "overview of", "concepts">>],
      [doc_type |-> "lab",
       keywords |-> <<"lab", "laboratory", "experiment", "practical",
                     "procedure", "apparatus", "observation", "aim">>],
      [doc_type |-> "exam",
       keywords |-> <<"exam", "examination", "question paper", "test",
                     "marks", "answer", "time:", "max marks">>],
      [doc_type |-> "outcomes",
       keywords |-> <<"learning outcomes", "course outcomes",
                     "program outcomes", "competencies", "skills acquired",
                     "objectives">>],
      [doc_type |-> "jd",
       keywords |-> <<"job description", "requirements", "qualifications",
                     "responsibilities", "experience required",
                     "skills needed">>],
      [doc_type |-> "textbook",
       keywords |-> <<"chapter", "section", "theorem", "definition",
                     "example", "exercise", "figure", "table">>]
    >>

DIFFICULTY_KEYWORDS ==
    <<
      [difficulty |-> "intro",
       keywords |-> <<"introduction", "basic", "fundamental", "overview",
                     "beginner", "simple", "elementary", "getting started">>],
      [difficulty |-> "intermediate",
       keywords |-> <<"intermediate", "moderate", "application",
                     "implementation", "analysis", "design", "develop">>],
      [difficulty |-> "advanced",
       keywords |-> <<"advanced", "complex", "optimization", "research",
                     "thesis", "dissertation", "novel", "state-of-the-art">>]
    >>

domains ==
    <<"computer science", "computer networks", "data structures",
      "algorithms", "database", "operating systems", "machine learning",
      "artificial intelligence", "physics", "chemistry", "biology",
      "mathematics", "calculus", "statistics", "economics", "management",
      "engineering", "electronics", "electrical", "mechanical", "civil",
      "medicine", "anatomy", "pharmacology", "law", "history",
      "psychology">>

DocumentType ==
    {"syllabus", "notes", "lab", "exam", "outcomes", "jd", "textbook",
     "unknown"}

Difficulty == {"intro", "intermediate", "advanced"}

\* sum(1 for kw in keywords if kw in text_lower)
KeywordScore(keywords, text_lower) ==
    Cardinality({k \in 1..Len(keywords) : Contains(text_lower, keywords[k])})

\* max(scores, key=scores.get): the first key, in dict order, of the
\* highest score; 0 when every score is 0
BestRow(table, text_lower) ==
    IF \A k \in 1..Len(table) : KeywordScore(table[k].keywords, text_lower) = 0
    THEN 0
    ELSE CHOOSE k \in 1..Len(table) :
            /\ \A m \in 1..Len(table) :
                  KeywordScore(table[m].keywords, text_lower)
                      <= KeywordScore(table[k].keywords, text_lower)
            /\ \A m \in 1..(k - 1) :
                  KeywordScore(table[m].keywords, text_lower)
                      < KeywordScore(table[k].keywords, text_lower)

\* _detect_document_type
DetectDocumentType(text) ==
    LET k == BestRow(DOC_TYPE_KEYWORDS, Lower(text))
    IN IF k = 0 THEN "unknown" ELSE DOC_TYPE_KEYWORDS[k].doc_type

\* _detect_difficulty
DetectDifficulty(text) ==
    LET k == BestRow(DIFFICULTY_KEYWORDS, Lower(text))
    IN IF k = 0 THEN "intermediate" ELSE DIFFICULTY_KEYWORDS[k].difficulty

\* the first domain, in list order, that occurs in text; 0 if none does
FirstDomainIn(text) ==
    IF \E k \in 1..Len(domains) : Contains(text, domains[k])
    THEN CHOOSE k \in 1..Len(domains) :
            /\ Contains(text, domains[k])
            /\ \A m \in 1..(k - 1) : ~Contains(text, domains[m])
    ELSE 0

\* _infer_subject
InferSubject(text, filename) ==
    LET filename_clean == UnderscoresToSpaces(SplitExtRoot(Basename(filename)))
        text_lower == Lower(text)
        filename_lower == Lower(filename_clean)
    IN IF FirstDomainIn(filename_lower) # 0
       THEN Title(domains[FirstDomainIn(filename_lower)])
       ELSE IF FirstDomainIn(Prefix(text_lower, 5000)) # 0
       THEN Title(domains[FirstDomainIn(Prefix(text_lower, 5000))])
       ELSE IF filename_clean # "" THEN Title(filename_clean)
       ELSE "General"

\* a line of a chunk that reads as a heading
IsHeading(line) ==
    /\ Len(line) > 5
    /\ Len(line) < 100
    /\ IsUpper(line) \/ IsTitle(line)

\* _infer_topic
InferTopic(chunk_text, subject) ==
    LET lines == SplitNewlines(chunk_text, 1)
        first3 == [k \in 1..(IF Len(lines) < 3 THEN Len(lines) ELSE 3) |->
                      Strip(lines[k])]
        words == Split(chunk_text)
        first10 == SubSeq(words, 1, IF Len(words) < 10 THEN Len(words) ELSE 10)
    IN IF \E k \in 1..Len(first3) : IsHeading(first3[k])
       THEN Prefix(first3[CHOOSE k \in 1..Len(first3) :
                      /\ IsHeading(first3[k])
                      /\ \A m \in 1..(k - 1) : ~IsHeading(first3[m])], 50)
       ELSE IF words # <<>> THEN Prefix(Join(first10, " "), 50)
       ELSE subject

\* A chunk id that hashes the whole content of the chunk.
ChunkIdWholeContent(filename, content, chunk_index) ==
    Md5Hex(filename \o content) \o "_" \o ToString(chunk_index)

\* f"{md5(filename + content[:100]).hexdigest()[:12]}_{chunk_index}"; the
\* first 12 digits of the digest are taken to be collision free as well
ChunkId(filename, content, chunk_index) ==
    Md5Hex(filename \o Prefix(content, 100)) \o "_" \o ToString(chunk_index)

\* _create_chunk, at clock tick now
CreateChunk(content, filename, doc_type, subject, page_num, chunk_index, now) ==
    [chunk_id |-> ChunkId(filename, content, chunk_index),
     content |-> content,
     subject |-> subject,
     doc_type |-> doc_type,
     topic |-> InferTopic(content, subject),
     difficulty |-> DetectDifficulty(content),
     source_file |-> Basename(filename),
     page_number |-> page_num,
     chunk_index |-> chunk_index,
     timestamp |-> now,
     word_count |-> Len(Split(content))]

\* _create_semantic_chunks: the chunking state is the list of chunks, the
\* counter chunk_index and the paragraphs and word count of the open chunk;
\* doc holds what every chunk of the document shares
Emit(st, chunk_text, doc, page_num) ==
    [st EXCEPT !.chunks = Append(@, CreateChunk(chunk_text, doc.filename, doc.doc_type,
                                                doc.subject, page_num,
                                                st.chunk_index, doc.now)),
               !.chunk_index = @ + 1]

\* document_ingestion.py:385-393 from word offset i on: the word windows of
\* a paragraph longer than chunk_size
RECURSIVE Windows(_, _, _, _, _)
Windows(st, words, i, doc, page_num) ==
    IF i >= Len(words) \/ doc.chunk_size - doc.chunk_overlap <= 0 THEN st
    ELSE Windows(Emit(st,
                      Join(SubSeq(words, i + 1,
                                  IF i + doc.chunk_size < Len(words)
                                  THEN i + doc.chunk_size ELSE Len(words)), " "),
                      doc, page_num),
                 words, i + (doc.chunk_size - doc.chunk_overlap), doc, page_num)

\* document_ingestion.py:395-409: the open chunk, if any, is closed
Flush(st, doc, page_num) ==
    IF st.current_chunk # <<>>
    THEN Emit(st, Join(st.current_chunk, "\n\n"), doc, page_num)
    ELSE st

\* A packing that adds a paragraph to the open chunk as long as the open
\* chunk itself is not over chunk_size.
AddParagraphWhileOpenFits(st, paragraph, doc, page_num) ==
    LET words == Split(paragraph)
        para_word_count == Len(words)
    IN IF st.current_word_count <= doc.chunk_size
       THEN [st EXCEPT !.current_chunk = Append(@, paragraph),
                       !.current_word_count = @ + para_word_count]
       ELSE [Flush(st, doc, page_num)
                EXCEPT !.current_chunk = <<paragraph>>,
                       !.current_word_count = para_word_count]

\* document_ingestion.py:367-397: one paragraph
AddParagraph(st, paragraph, doc, page_num) ==
    LET words == Split(paragraph)
        para_word_count == Len(words)
    IN IF st.current_word_count + para_word_count <= doc.chunk_size
       THEN [st EXCEPT !.current_chunk = Append(@, paragraph),
                       !.current_word_count = @ + para_word_count]
       ELSE IF para_word_count > doc.chunk_size
       THEN [Windows(Flush(st, doc, page_num), words, 0, doc, page_num)
                EXCEPT !.current_chunk = <<>>, !.current_word_count = 0]
       ELSE [Flush(st, doc, page_num)
                EXCEPT !.current_chunk = <<paragraph>>,
                       !.current_word_count = para_word_count]

RECURSIVE AddParagraphs(_, _, _, _)
AddParagraphs(st, paragraphs, doc, page_num) ==
    IF paragraphs = <<>> THEN st
    ELSE AddParagraphs(AddParagraph(st, Head(paragraphs), doc, page_num),
                       Tail(paragraphs), doc, page_num)

\* document_ingestion.py:360-410: the pages from page_num on
RECURSIVE AddPages(_, _, _, _)
AddPages(st, pages_text, page_num, doc) ==
    IF page_num > Len(pages_text) THEN st
    ELSE AddPages(
            Flush(AddParagraphs([st EXCEPT !.current_chunk = <<>>,
                                           !.current_word_count = 0],
                                SplitNewlines(pages_text[page_num], 2),
                                doc, page_num),
                  doc, page_num),
            pages_text, page_num + 1, doc)

CreateSemanticChunks(pages_text, doc) ==
    AddPages([chunks |-> <<>>, chunk_index |-> 0, current_chunk |-> <<>>,
              current_word_count |-> 0],
             pages_text, 1, doc).chunks

\* range(0, len(words), chunk_size - chunk_overlap) raises ValueError when
\* the step is 0: it is reached for a paragraph longer than chunk_size
ChunkingRaises(pages_text, pipeline_config) ==
    /\ pipeline_config.chunk_size = pipeline_config.chunk_overlap
    /\ \E p \in 1..Len(pages_text) :
          LET paragraphs == SplitNewlines(pages_text[p], 2)
          IN \E k \in 1..Len(paragraphs) :
                Len(Split(paragraphs[k])) > pipeline_config.chunk_size

\* _generate_doc_id: f"doc_{sha256(content).hexdigest()[:16]}"; the first 16
\* digits of the digest are taken to be collision free as well
GenerateDocId(filename, content) == "doc_" \o Sha256Hex(content)

\* what process_text and process_pdf share: pages_text of the file at path
\* (whole text full_text) becomes a ProcessedDocument named filename
Process(pages_text, full_text, path, filename, user_subject_hint, pipeline_config, now) ==
    LET doc_type == DetectDocumentType(full_text)
        subject == IF Truthy(user_subject_hint) THEN user_subject_hint
                   ELSE InferSubject(full_text, path)
        new_chunks == CreateSemanticChunks(pages_text,
                     [filename |-> path, doc_type |-> doc_type, subject |-> subject,
                      chunk_size |-> pipeline_config.chunk_size,
                      chunk_overlap |-> pipeline_config.chunk_overlap,
                      now |-> now])
    IN [doc_id |-> GenerateDocId(path, full_text),
        filename |-> filename,
        doc_type |-> doc_type,
        subject |-> subject,
        total_chunks |-> Len(new_chunks),
        total_pages |-> Len(pages_text),
        chunks |-> new_chunks,
        timestamp |-> now]

\* process_text
ProcessText(text, filename, user_subject_hint, pipeline_config, now) ==
    Process(<<text>>, text, filename, filename, user_subject_hint, pipeline_config, now)

\* process_pdf, given the page texts _extract_pdf_text returns for file_path
ProcessPdf(pages_text, file_path, user_subject_hint, pipeline_config, now) ==
    Process(pages_text, Join(pages_text, "\n\n"), file_path, Basename(file_path),
            user_subject_hint, pipeline_config, now)

\* re.sub(r'\s+', ' ', text) on the characters lo..hi of text
RECURSIVE CollapseWhitespace(_, _, _)
CollapseWhitespace(text, lo, hi) ==
    IF lo > hi THEN ""
    ELSE IF lo = hi
    THEN (IF Char(text, lo) \notin WhitespaceChars THEN Char(text, lo)
          ELSE IF lo > 1 /\ Char(text, lo - 1) \in WhitespaceChars THEN ""
          ELSE " ")
    ELSE LET mid == (lo + hi) \div 2
         IN CollapseWhitespace(text, lo, mid) \o CollapseWhitespace(text, mid + 1, hi)

\* the characters other than \w and \s that _clean_text keeps
CleanPunctuation == {".", ",", ";", ":", "!", "?", "(", ")", "-"}

\* re.sub(r'[^\w\s.,;:!?()-]', '', text) on the characters lo..hi of text
RECURSIVE RemoveSpecial(_, _, _)
RemoveSpecial(text, lo, hi) ==
    IF lo > hi THEN ""
    ELSE IF lo = hi
    THEN (IF \/ IsWordChar(Char(text, lo))
             \/ Char(text, lo) \in WhitespaceChars
             \/ Char(text, lo) \in CleanPunctuation
          THEN Char(text, lo) ELSE "")
    ELSE LET mid == (lo + hi) \div 2
         IN RemoveSpecial(text, lo, mid) \o RemoveSpecial(text, mid + 1, hi)

\* _clean_text; the quotes its replace calls look for are gone by then
CleanText(text) ==
    LET collapsed == CollapseWhitespace(text, 1, Len(text))
    IN Strip(RemoveSpecial(collapsed, 1, Len(collapsed)))

\* _extract_pdf_text, given what page.extract_text() or "" is for each page
ExtractPdfText(page_texts) ==
    SelectSeq([p \in DOMAIN page_texts |-> CleanText(page_texts[p])],
              LAMBDA text : Strip(text) # "")

(***************************************************************************)
(* Vector Store (vector_store.py).  An embedding is held before the        *)
(* division by its norm, as the function from the indices of its nonzero   *)
(* components to their values: the cosine of two vectors does not change   *)
(* when either is scaled by a positive number.  A similarity is the pair   *)
(* (num, den2) standing for num / sqrt(den2), so that scores are compared  *)
(* exactly; the rounding of the floating-point division is not modelled.   *)
(***************************************************************************)
dimension == 384

\* the least number of chunks of one add_chunks call that refits the embedder
fit_min_chunks == 10

\* int(hashlib.md5(word.encode()).hexdigest(), 16) % dimension for the words
\* of the model's texts
WordHash ==
    "newton" :> 55 @@ "first" :> 213 @@ "law" :> 120 @@ "of" :> 356
    @@ "inertia" :> 66 @@ "says" :> 289 @@ "the" :> 215 @@ "body" :> 252
    @@ "stays" :> 312 @@ "at" :> 33 @@ "rest" :> 252 @@ "or" :> 283
    @@ "in" :> 223 @@ "uniform" :> 366 @@ "motion" :> 348 @@ "unless" :> 157
    @@ "an" :> 104 @@ "external" :> 50 @@ "force" :> 352 @@ "acts" :> 78
    @@ "momentum" :> 84 @@ "is" :> 233 @@ "simple" :> 234 @@ "product" :> 168
    @@ "mass" :> 223 @@ "and" :> 248 @@ "velocity" :> 44 @@ "ends" :> 39
    @@ "exam" :> 337 @@ "question" :> 377 @@ "on" :> 336 @@ "revision" :> 117
    @@ "plan" :> 223 @@ "schedule" :> 218 @@ "every" :> 382 @@ "early" :> 200
    @@ "each" :> 244 @@ "topic" :> 165 @@ "so" :> 76 @@ "that" :> 89
    @@ "my" :> 108 @@ "time" :> 43 @@ "for" :> 363 @@ "lab" :> 45
    @@ "manual" :> 165 @@ "aim" :> 157 @@ "apparatus:" :> 194 @@ "a" :> 97
    @@ "pendulum," :> 172 @@ "stop-watch" :> 167 @@ "procedure" :> 139
    @@ "(steps):" :> 211 @@ "measure" :> 264 @@ "20" :> 260 @@ "swings;" :> 138
    @@ "repeat" :> 217 @@ "experiment" :> 66 @@ "explain" :> 267
    @@ "define" :> 197 @@ "show" :> 18 @@ "steps" :> 353

\* 1000 * np.log(n / d), rounded, at ln_milli[n][d]
ln_milli ==
    <<
      <<0, -693, -1099, -1386, -1609, -1792, -1946, -2079, -2197, -2303, -2398, -2485, -2565>>,
      <<693, 0, -405, -693, -916, -1099, -1253, -1386, -1504, -1609, -1705, -1792, -1872>>,
      <<1099, 405, 0, -288, -511, -693, -847, -981, -1099, -1204, -1299, -1386, -1466>>,
      <<1386, 693, 288, 0, -223, -405, -560, -693, -811, -916, -1012, -1099, -1179>>,
      <<1609, 916, 511, 223, 0, -182, -336, -470, -588, -693, -788, -875, -956>>,
      <<1792, 1099, 693, 405, 182, 0, -154, -288, -405, -511, -606, -693, -773>>,
      <<1946, 1253, 847, 560, 336, 154, 0, -134, -251, -357, -452, -539, -619>>,
      <<2079, 1386, 981, 693, 470, 288, 134, 0, -118, -223, -318, -405, -486>>,
      <<2197, 1504, 1099, 811, 588, 405, 251, 118, 0, -105, -201, -288, -368>>,
      <<2303, 1609, 1204, 916, 693, 511, 357, 223, 105, 0, -95, -182, -262>>,
      <<2398, 1705, 1299, 1012, 788, 606, 452, 318, 201, 95, 0, -87, -167>>,
      <<2485, 1792, 1386, 1099, 875, 693, 539, 405, 288, 182, 87, 0, -80>>
    >>

\* the sum of the values of a function with a finite domain
RECURSIVE Sum(_)
Sum(f) ==
    IF DOMAIN f = {} THEN 0
    ELSE LET x == CHOOSE y \in DOMAIN f : TRUE
         IN f[x] + Sum([y \in DOMAIN f \ {x} |-> f[y]])

Range(s) == {s[k] : k \in DOMAIN s}

\* every list that holds each element of S once: the orders in which a
\* Python set of str may be iterated
RECURSIVE Orderings(_)
Orderings(S) ==
    IF S = {} THEN {<<>>}
    ELSE UNION {{<<x>> \o o : o \in Orderings(S \ {x})} : x \in S}

\* SimpleEmbedding.__init__
NewEmbedder == [is_fitted |-> FALSE, vocab |-> <<>>, idf |-> <<>>]

\* fit: idf is in thousandths; sorted() keeps, among words of equal idf, the
\* order in which the sets of words were iterated, which is `order`
FitOrders(documents) ==
    LET words == UNION {Range(Split(Lower(documents[d]))) : d \in DOMAIN documents}
        count(w) == Cardinality({d \in DOMAIN documents :
                                    w \in Range(Split(Lower(documents[d])))})
        idf(w) == ln_milli[Len(documents)][count(w) + 1]
    IN {o \in Orderings(words) :
           \A i, j \in DOMAIN o : i < j => idf(o[i]) >= idf(o[j])}

Fit(documents, order) ==
    LET count(w) == Cardinality({d \in DOMAIN documents :
                                    w \in Range(Split(Lower(documents[d])))})
        kept == IF Len(order) < dimension THEN Len(order) ELSE dimension
    IN [is_fitted |-> TRUE,
        vocab |-> [w \in {order[k] : k \in 1..kept} |->
                      (CHOOSE k \in 1..kept : order[k] = w) - 1],
        idf |-> [w \in Range(order) |-> ln_milli[Len(documents)][count(w) + 1]]]

\* _hash_embed
HashEmbed(text) ==
    LET words == Split(Lower(text))
    IN [i \in {WordHash[words[k]] : k \in DOMAIN words} |->
           Cardinality({k \in DOMAIN words : WordHash[words[k]] = i})]

\* the greatest common divisor of two naturals
RECURSIVE Gcd(_, _)
Gcd(a, b) == IF b = 0 THEN a ELSE Gcd(b, a % b)

\* the greatest common divisor of the absolute values of the components
RECURSIVE GcdOf(_)
GcdOf(v) ==
    IF DOMAIN v = {} THEN 0
    ELSE LET i == CHOOSE j \in DOMAIN v : TRUE
             a == IF v[i] < 0 THEN -v[i] ELSE v[i]
         IN Gcd(a, GcdOf([j \in DOMAIN v \ {i} |-> v[j]]))

\* embed: tf * idf without the division by len(words), which scales the
\* whole vector; a component that is 0 is left out, and the vector is held
\* divided by the greatest common divisor of its components, which scales
\* it once more
Embed(emb, text) ==
    IF ~emb.is_fitted THEN HashEmbed(text)
    ELSE LET words == Split(Lower(text))
             known == {w \in Range(words) : w \in DOMAIN emb.vocab /\ emb.idf[w] # 0}
             tf_idf == [i \in {emb.vocab[w] : w \in known} |->
                          LET w == CHOOSE v \in known : emb.vocab[v] = i
                          IN Cardinality({k \in DOMAIN words : words[k] = w})
                                * emb.idf[w]]
             g == GcdOf(tf_idf)
         IN [i \in DOMAIN tf_idf |->
                IF tf_idf[i] < 0 THEN -((-tf_idf[i]) \div g) ELSE tf_idf[i] \div g]

\* VectorStore.__init__ and clear(): chunks is the dict in insertion order,
\* an index is its dict in insertion order, as [key, ids] entries
EmptyStore ==
    [chunks |-> <<>>, embeddings |-> <<>>, by_subject |-> <<>>,
     by_doc_type |-> <<>>, by_topic |-> <<>>]

\* A chunk map that keeps a chunk for every add, as a list does.
PutChunkAppends(chunks_dict, chunk) == Append(chunks_dict, chunk)

\* self.chunks[chunk_id] = chunk
PutChunk(chunks_dict, chunk) ==
    IF \E k \in DOMAIN chunks_dict : chunks_dict[k].chunk_id = chunk.chunk_id
    THEN [k \in DOMAIN chunks_dict |->
             IF chunks_dict[k].chunk_id = chunk.chunk_id THEN chunk ELSE chunks_dict[k]]
    ELSE Append(chunks_dict, chunk)

\* index.get(key, [])
IndexGet(index, key) ==
    IF \E k \in DOMAIN index : index[k].key = key
    THEN index[CHOOSE k \in DOMAIN index : index[k].key = key].ids
    ELSE <<>>

\* An index whose list for a key holds the last chunk_id only.
IndexAppendReplaces(index, key, chunk_id) ==
    IF \E k \in DOMAIN index : index[k].key = key
    THEN [k \in DOMAIN index |->
             IF index[k].key = key
             THEN [index[k] EXCEPT !.ids = <<chunk_id>>] ELSE index[k]]
    ELSE Append(index, [key |-> key, ids |-> <<chunk_id>>])

\* if key not in index: index[key] = []; index[key].append(chunk_id)
IndexAppend(index, key, chunk_id) ==
    IF \E k \in DOMAIN index : index[k].key = key
    THEN [k \in DOMAIN index |->
             IF index[k].key = key
             THEN [index[k] EXCEPT !.ids = Append(@, chunk_id)] ELSE index[k]]
    ELSE Append(index, [key |-> key, ids |-> <<chunk_id>>])

\* vector_store.py:146-170: one chunk of add_chunks
AddChunk(store, emb, chunk) ==
    [chunks |-> PutChunk(store.chunks, chunk),
     embeddings |-> (chunk.chunk_id :> Embed(emb, chunk.content)) @@ store.embeddings,
     by_subject |-> IndexAppend(store.by_subject, Lower(chunk.subject), chunk.chunk_id),
     by_doc_type |-> IndexAppend(store.by_doc_type, chunk.doc_type, chunk.chunk_id),
     by_topic |-> IndexAppend(store.by_topic, Lower(chunk.topic), chunk.chunk_id)]

RECURSIVE AddEach(_, _, _)
AddEach(store, emb, new_chunks) ==
    IF new_chunks = <<>> THEN store
    ELSE AddEach(AddChunk(store, emb, Head(new_chunks)), emb, Tail(new_chunks))

\* add_chunks refits the embedder for more than fit_min_chunks chunks
Refits(new_chunks) == Len(new_chunks) > fit_min_chunks

\* the embedders add_chunks may leave behind
EmbeddersAfter(emb, new_chunks) ==
    IF Refits(new_chunks)
    THEN LET texts == [k \in DOMAIN new_chunks |-> new_chunks[k].content]
         IN {Fit(texts, order) : order \in FitOrders(texts)}
    ELSE {emb}

\* add_chunks, the embedder it leaves behind being emb
AddChunks(store, emb, new_chunks) == AddEach(store, emb, new_chunks)

\* _get_filtered_candidates, before list(): a filter that is None is NoneStr
FilteredCandidates(store, subject_filter, doc_type_filter, difficulty_filter) ==
    LET all == {store.chunks[k].chunk_id : k \in DOMAIN store.chunks}
        subject_chunks ==
            IF Truthy(subject_filter)
            THEN Range(IndexGet(store.by_subject, Lower(subject_filter))) ELSE all
        type_chunks ==
            IF Truthy(doc_type_filter)
            THEN Range(IndexGet(store.by_doc_type, doc_type_filter)) ELSE all
        diff_chunks ==
            IF Truthy(difficulty_filter)
            THEN {store.chunks[k].chunk_id :
                     k \in {j \in DOMAIN store.chunks :
                               store.chunks[j].difficulty = difficulty_filter}}
            ELSE all
    IN ((all \cap subject_chunks) \cap type_chunks) \cap diff_chunks

\* get_stats, but for avg_latency_ms: the time a retrieval takes is not
\* followed
GetStats(store, retrievals) ==
    [total_chunks |-> Len(store.chunks),
     total_subjects |-> Len(store.by_subject),
     total_doc_types |-> Len(store.by_doc_type),
     subjects |-> [k \in DOMAIN store.by_subject |-> store.by_subject[k].key],
     doc_types |-> [k \in DOMAIN store.by_doc_type |-> store.by_doc_type[k].key],
     total_retrievals |-> retrievals]

\* _cosine_similarity
CosineSimilarity(a, b) ==
    LET dot_product == Sum([i \in DOMAIN a \cap DOMAIN b |-> a[i] * b[i]])
        norm_a2 == Sum([i \in DOMAIN a |-> a[i] * a[i]])
        norm_b2 == Sum([i \in DOMAIN b |-> b[i] * b[i]])
    IN IF norm_a2 = 0 \/ norm_b2 = 0 THEN [num |-> 0, den2 |-> 1]
       ELSE [num |-> dot_product, den2 |-> norm_a2 * norm_b2]

\* x >= y for two similarities
ScoreGeq(x, y) ==
    IF x.num >= 0 /\ y.num <= 0 THEN TRUE
    ELSE IF x.num < 0 /\ y.num >= 0 THEN FALSE
    ELSE IF x.num >= 0
    THEN x.num * x.num * y.den2 >= y.num * y.num * x.den2
    ELSE x.num * x.num * y.den2 <= y.num * y.num * x.den2

\* a retrieval that keeps every candidate, whatever its score
MeetsMinScoreAlways(score, min_score) == TRUE

\* score >= min_score
MeetsMinScore(score, min_score) == ScoreGeq(score, min_score)

\* results.sort(key=lambda x: -x[1]): the position of results[i] after the
\* stable sort
SortedPosition(results, i) ==
    Cardinality({j \in DOMAIN results :
                    \/ ~ScoreGeq(results[i].score, results[j].score)
                    \/ /\ j <= i
                       /\ ScoreGeq(results[i].score, results[j].score)
                       /\ ScoreGeq(results[j].score, results[i].score)})

SortByScore(results) ==
    [r \in DOMAIN results |->
        results[CHOOSE i \in DOMAIN results : SortedPosition(results, i) = r]]

\* the chunk object stored under chunk_id
ChunkOf(store, chunk_id) ==
    store.chunks[CHOOSE k \in DOMAIN store.chunks : store.chunks[k].chunk_id = chunk_id]

\* retrieve from the scoring loop on, when list(candidates) is `candidates`
\* and query_embedding is the embedding of the query
RetrieveFrom(store, query_embedding, top_k, candidates, min_score) ==
    LET present == SelectSeq(candidates, LAMBDA id : id \in DOMAIN store.embeddings)
        scored == [k \in DOMAIN present |->
                      [chunk_id |-> present[k],
                       score |-> CosineSimilarity(query_embedding,
                                                  store.embeddings[present[k]])]]
        results == SortByScore(SelectSeq(scored,
                       LAMBDA r : MeetsMinScore(r.score, min_score)))
        n == IF Len(results) < top_k THEN Len(results) ELSE top_k
    IN [rank \in 1..n |->
           [chunk |-> ChunkOf(store, results[rank].chunk_id),
            score |-> results[rank].score,
            rank |-> rank]]

\* what retrieve may return: list(set) puts the candidates in any order
RetrieveOutcomes(store, emb, query, top_k, subject_filter, doc_type_filter, difficulty_filter, min_score) ==
    LET query_embedding == Embed(emb, query)
    IN {RetrieveFrom(store, query_embedding, top_k, candidates, min_score) :
           candidates \in Orderings(FilteredCandidates(store, subject_filter,
                                                       doc_type_filter,
                                                       difficulty_filter))}

(***************************************************************************)
(* RAG Executor (rag_executor.py).  A citation's score is in thousandths   *)
(* and a confidence in hundredths.                                         *)
(***************************************************************************)
\* self.min_retrieval_score = 0.3, as a similarity: 3 / sqrt(100)
min_retrieval_score == [num |-> 3, den2 |-> 100]

max_context_chunks == 5

base_prompt ==
    "You are LearnCopilot, an academic AI assistant. Your role "
    \o "is to help students learn and understand their course "
    \o "materials.\n"
    \o "\n"
    \o "CRITICAL RULES:\n"
    \o "1. ONLY use information from the provided context/sources\n"
    \o "2. If the context doesn't contain the answer, say \"I don't "
    \o "have information about this in your study materials\"\n"
    \o "3. ALWAYS cite sources using [Source N] format\n"
    \o "4. Be academically accurate and educational\n"
    \o "5. Explain concepts clearly for student understanding"

intent_additions ==
    <<
      [intent |-> "theory_explanation",
       text |-> "\n"
               \o "For theory explanations:\n"
               \o "- Start with a clear definition\n"
               \o "- Explain the underlying principles\n"
               \o "- Use the exact terminology from the sources\n"
               \o "- Add examples if present in the context"],
      [intent |-> "concept_clarification",
       text |-> "\n"
               \o "For concept clarification:\n"
               \o "- Break down complex ideas into simpler parts\n"
               \o "- Use analogies if helpful\n"
               \o "- Connect to related concepts mentioned in sources"],
      [intent |-> "definition_lookup",
       text |-> "\n"
               \o "For definitions:\n"
               \o "- Provide the exact definition from sources\n"
               \o "- Keep it concise and precise\n"
               \o "- Mention the source explicitly"],
      [intent |-> "example_request",
       text |-> "\n"
               \o "For examples:\n"
               \o "- Provide examples exactly as given in sources\n"
               \o "- Add step-by-step explanation if appropriate\n"
               \o "- Use proper formatting for code/formulas"],
      [intent |-> "lab_procedure",
       text |-> "\n"
               \o "For lab procedures:\n"
               \o "- List steps clearly and in order\n"
               \o "- Include safety precautions\n"
               \o "- Mention required materials\n"
               \o "- Follow the exact procedure from sources"],
      [intent |-> "exam_question",
       text |-> "\n"
               \o "For exam questions:\n"
               \o "- Present questions as they appear in sources\n"
               \o "- Include mark weightage if mentioned\n"
               \o "- Provide answer hints if available in context"]
    >>

\* prompt_template.format(context=context, query=query)
PromptTemplate(context, query) ==
    "Based on the following study materials, answer the "
    \o "student's question.\n"
    \o "\n"
    \o "STUDY MATERIALS:\n"
    \o context
    \o "\n"
    \o "\n"
    \o "STUDENT'S QUESTION:\n"
    \o query
    \o "\n"
    \o "\n"
    \o "INSTRUCTIONS:\n"
    \o "- Answer using ONLY information from the study materials "
    \o "above\n"
    \o "- Cite sources using [Source N] format\n"
    \o "- If information is not in the materials, explicitly say so\n"
    \o "- Be educational and helpful\n"
    \o "\n"
    \o "YOUR RESPONSE:"

insufficient_context_answer ==
    "I couldn't find relevant information in your uploaded study "
    \o "materials to answer this question.\n"
    \o "\n"
    \o "This could mean:\n"
    \o "1. You haven't uploaded materials covering this topic yet\n"
    \o "2. The topic might be named differently in your materials\n"
    \o "3. This might be outside the scope of your current subjects\n"
    \o "\n"
    \o "**What you can do:**\n"
    \o "- Upload relevant PDFs, notes, or textbooks covering this "
    \o "topic\n"
    \o "- Try rephrasing your question with different keywords\n"
    \o "- Specify the subject you're asking about\n"
    \o "\n"
    \o "Would you like me to help with something else from your "
    \o "existing materials?"

\* _format_context
FormatContext(results) ==
    Join([i \in DOMAIN results |->
             "\n[Source " \o ToString(i) \o "]"
             \o "\nSubject: " \o results[i].chunk.subject
             \o "\nTopic: " \o results[i].chunk.topic
             \o "\nType: " \o results[i].chunk.doc_type
             \o "\nContent:\n" \o results[i].chunk.content
             \o "\n---"], "\n")

\* _build_system_prompt: base_prompt + intent_additions.get(intent, "")
BuildSystemPrompt(intent) ==
    base_prompt \o
    (IF \E k \in DOMAIN intent_additions : intent_additions[k].intent = intent
     THEN intent_additions[CHOOSE k \in DOMAIN intent_additions :
                              intent_additions[k].intent = intent].text
     ELSE "")

\* _build_user_prompt
BuildUserPrompt(query, context, intent) == PromptTemplate(context, query)

\* the largest r in lo..hi with r * r <= n, for lo * lo <= n
RECURSIVE ISqrtIn(_, _, _)
ISqrtIn(n, lo, hi) ==
    IF lo >= hi THEN lo
    ELSE LET mid == (lo + hi + 1) \div 2
         IN IF mid * mid <= n THEN ISqrtIn(n, mid, hi) ELSE ISqrtIn(n, lo, mid - 1)

\* round(score, 3) in thousandths, for the scores 0 <= num / sqrt(den2) <= 1
\* of hashed embeddings: floor(1000 * score + 1/2)
ScoreMilli(score) ==
    (ISqrtIn((4000000 * score.num * score.num) \div score.den2, 0, 2000) + 1) \div 2

\* Citations numbered from 0, as enumerate() numbers by default.
BuildCitationsFromZero(results) ==
    [i \in DOMAIN results |->
        [source_id |-> i - 1,
         subject |-> results[i].chunk.subject,
         topic |-> results[i].chunk.topic,
         doc_type |-> results[i].chunk.doc_type,
         score |-> ScoreMilli(results[i].score),
         chunk_id |-> results[i].chunk.chunk_id]]

\* _build_citations
BuildCitations(results) ==
    [i \in DOMAIN results |->
        [source_id |-> i,
         subject |-> results[i].chunk.subject,
         topic |-> results[i].chunk.topic,
         doc_type |-> results[i].chunk.doc_type,
         score |-> ScoreMilli(results[i].score),
         chunk_id |-> results[i].chunk.chunk_id]]

\* A confidence that weighs the mean score 0.3 and the source factor 0.7.
CalculateConfidenceWeightsSwapped(results) ==
    IF results = <<>> THEN 0
    ELSE LET n == Len(results)
             total == Sum([i \in DOMAIN results |-> ScoreMilli(results[i].score)])
             source == IF n >= 3 THEN 21000 * n ELSE 7000 * n * n
             hundredths == (9 * total + source + 150 * n) \div (300 * n)
         IN IF hundredths > 100 THEN 100 ELSE hundredths

\* _calculate_confidence in hundredths, from the scores in thousandths:
\* round(min(avg_score * 0.7 + min(len(results) / 3, 1.0) * 0.3, 1.0), 2)
CalculateConfidence(results) ==
    IF results = <<>> THEN 0
    ELSE LET n == Len(results)
             total == Sum([i \in DOMAIN results |-> ScoreMilli(results[i].score)])
             source_milli == IF n >= 3 THEN 300 ELSE 100 * n
             hundredths == (14 * total + (2 * source_milli + 10) * 10 * n) \div (200 * n)
         IN IF hundredths > 100 THEN 100 ELSE hundredths

\* _insufficient_context_response; llm_response is the heap address of the
\* LLMResponse object, 0 for None
InsufficientContextResponse(routing_decision) ==
    [answer |-> insufficient_context_answer,
     citations |-> <<>>,
     confidence |-> 0,
     route_used |-> routing_decision.route,
     retrieval_results |-> <<>>,
     llm_response |-> 0]

\* an executor that asks the Inference Manager whatever was retrieved
SufficientContextAlways(retrieval_results) == TRUE

\* rag_executor.py:89: `if not retrieval_results` is false
SufficientContext(retrieval_results) == retrieval_results # <<>>

\* rag_executor.py:106-119: the RAGResponse built once generate has returned
\* the LLMResponse object at heap address rid
GroundedResponse(retrieval_results, routing_decision, content, rid) ==
    [answer |-> content,
     citations |-> BuildCitations(retrieval_results),
     confidence |-> CalculateConfidence(retrieval_results),
     route_used |-> routing_decision.route,
     retrieval_results |-> retrieval_results,
     llm_response |-> rid]

(***************************************************************************)
(* The inputs of route previews: queries put together from cue phrases of  *)
(* the three pattern categories and from phrases that are no cue.          *)
(***************************************************************************)
RouterFragments ==
    {"define", "Explain the", "what is", "undefined", "concept",
     "Schedule my exam revision", "my exam", "plan my study", "statistics",
     "write code", "calculate", "what if", "advantages",
     "learn", "hello", "the\nlaw"}

PreviewQueries ==
    RouterFragments \cup {a \o " " \o b : a \in RouterFragments, b \in RouterFragments}

PreviewSubjects == {NoneStr, "Physics"}

\* route() on the preview inputs, evaluated once.
PreviewRoute ==
    [query \in PreviewQueries, subject \in PreviewSubjects |->
        Route(query, SubjectContext(subject))]

(***************************************************************************)
(* The requests of the model.  The ingestion pipeline is built with a      *)
(* chunk_size of 20 words and an overlap of 4 (500 and 100 in the source)  *)
(* so that short texts are split into several chunks.                      *)
(***************************************************************************)
DefaultPipeline == [chunk_size |-> 20, chunk_overlap |-> 4]

\* DocumentIngestionPipeline(chunk_size, chunk_overlap) for small sizes,
\* with an overlap up to the size
ChunkConfigs ==
    {[chunk_size |-> size, chunk_overlap |-> overlap] :
        size \in 1..MaxChunkSize, overlap \in 0..MaxChunkSize}
    \ {cfg \in [chunk_size : 1..MaxChunkSize, chunk_overlap : 0..MaxChunkSize] :
          cfg.chunk_overlap > cfg.chunk_size}

PipelineConfigs == {DefaultPipeline}

\* a paragraph of 20 words and 106 characters, and one that differs from it
\* after character 100 only
InertiaParagraph ==
    "Newton first law of inertia says the body stays at rest or in uniform "
    \o "motion unless an external force acts"

InertiaParagraphEnds ==
    "Newton first law of inertia says the body stays at rest or in uniform "
    \o "motion unless an external force ends"

MechanicsNotes ==
    InertiaParagraph \o "\n\n" \o "Momentum is the simple product of mass and velocity"

MechanicsExam ==
    InertiaParagraphEnds \o "\n\n" \o "Exam question on momentum and velocity"

RevisionPlan ==
    "Revision Plan\nSchedule every exam revision early and plan the revision "
    \o "of each exam topic so that my exam revision stays on schedule and on "
    \o "time for the exam"

\* what page.extract_text() gives for the three pages of a scanned manual
LabManualPages ==
    <<"LAB  MANUAL\nAim & apparatus:  a pendulum,\ta stop-watch",
      "   \n ",
      "Procedure (steps): measure the \"time\" of 20 swings; repeat the "
      \o "experiment\n\nin the lab">>

\* POST /rag/upload-text
TextUploads ==
    {[content |-> MechanicsNotes, title |-> "mechanics.txt", subject |-> "Physics",
      doc_type |-> NoneStr],
     [content |-> MechanicsNotes, title |-> "mechanics.txt", subject |-> "Chemistry",
      doc_type |-> "notes"],
     [content |-> MechanicsExam, title |-> "mechanics.txt", subject |-> "Physics",
      doc_type |-> NoneStr],
     [content |-> MechanicsNotes, title |-> "week1.txt", subject |-> NoneStr,
      doc_type |-> NoneStr]}

\* POST /rag/upload-text of short texts: no text, blank text, one paragraph
\* of seven words, and paragraphs of two, three and five words
ChunkTexts ==
    {[content |-> c, title |-> "words.txt", subject |-> "Physics",
      doc_type |-> NoneStr] :
        c \in {"", " \n\n\t", "a law of the body at rest",
               "a law\n\nof the body\n\nat rest or in motion",
               "law of inertia\n\n\n\nmomentum"}}

\* POST /rag/upload: content is the decoded body of a text file; pages is
\* what PdfReader reads from the body of a PDF
FileUploads ==
    {[filename |-> "exam_plan.md", content |-> RevisionPlan, pages |-> <<>>,
      subject_hint |-> NoneStr],
     [filename |-> "Pendulum.PDF", content |-> "", pages |-> LabManualPages,
      subject_hint |-> NoneStr],
     [filename |-> "slides.pptx", content |-> "", pages |-> <<>>,
      subject_hint |-> "Physics"]}

\* what page.extract_text() gives for the eleven pages of a formula sheet:
\* "inertia" is on 2 of the pages and "mass" on 10, so that fit gives
\* "mass" the idf log(11 / 11) = 0 and "inertia" the idf log(11 / 3)
FormulaePages ==
    <<"inertia", "inertia mass", "mass", "mass", "mass", "mass", "mass", "mass",
      "mass", "mass", "mass">>

\* POST /rag/upload of a document of more than fit_min_chunks chunks
BatchUploads ==
    {[filename |-> "formulae.pdf", content |-> "", pages |-> FormulaePages,
      subject_hint |-> "Chemistry"]}

\* tempfile.NamedTemporaryFile(delete=False, suffix=file_ext).name
TempPaths(file_ext) == {"/tmp/tmpk3x9" \o file_ext, "/tmp/tmp_q7b2" \o file_ext}

\* POST /rag/query
QueryRequests ==
    {[query |-> "Explain the law of inertia", subject |-> NoneStr,
      doc_type |-> NoneStr, difficulty |-> NoneStr, use_cache |-> FALSE],
     [query |-> "Explain the law of inertia", subject |-> "physics",
      doc_type |-> "unknown", difficulty |-> NoneStr, use_cache |-> TRUE],
     [query |-> "Schedule my exam revision", subject |-> NoneStr,
      doc_type |-> NoneStr, difficulty |-> NoneStr, use_cache |-> TRUE],
     [query |-> "define momentum", subject |-> NoneStr,
      doc_type |-> NoneStr, difficulty |-> NoneStr, use_cache |-> TRUE],
     [query |-> "Explain the motion of the body at rest", subject |-> NoneStr,
      doc_type |-> "lab_manual", difficulty |-> "intermediate", use_cache |-> TRUE],
     [query |-> "Explain the law of inertia", subject |-> NoneStr,
      doc_type |-> NoneStr, difficulty |-> "hard", use_cache |-> TRUE]}

\* os.path.splitext(filename)[1]
SplitExtExt(filename) ==
    LET name == Basename(filename)
    IN SubSeq(name, Len(SplitExtRoot(name)) + 1, Len(name))

allowed_extensions == <<".pdf", ".txt", ".md">>

\* the ticks at which an ingestion may run
Ticks == 0..(MaxUploads - 1)

\* process_text for the upload-text payloads, evaluated once
TextIngestion ==
    [cfg \in PipelineConfigs, u \in TextUploads, now \in Ticks |->
        [raises |-> ChunkingRaises(<<u.content>>, cfg),
         path |-> u.title,
         text |-> u.content,
         processed |-> ProcessText(u.content, u.title, u.subject, cfg, now)]]

\* process_text of the short texts by the small pipelines, evaluated once
ChunkIngestion ==
    [cfg \in ChunkConfigs, u \in ChunkTexts, now \in Ticks |->
        [raises |-> ChunkingRaises(<<u.content>>, cfg),
         path |-> u.title,
         text |-> u.content,
         processed |-> ProcessText(u.content, u.title, u.subject, cfg, now)]]

\* upload_document's branch on file_ext for the files it accepts, evaluated
\* once for each name the temporary file may get
FileIngestion ==
    [cfg \in PipelineConfigs,
     f \in {g \in FileUploads \cup BatchUploads :
               Lower(SplitExtExt(g.filename)) \in Range(allowed_extensions)},
     tmp_path \in TempPaths(".pdf") \cup TempPaths(".txt") \cup TempPaths(".md"),
     now \in Ticks |->
        IF Lower(SplitExtExt(f.filename)) = ".pdf"
        THEN LET pages_text == ExtractPdfText(f.pages)
             IN [raises |-> ChunkingRaises(pages_text, cfg),
                 path |-> tmp_path,
                 text |-> Join(pages_text, "\n\n"),
                 processed |-> ProcessPdf(pages_text, tmp_path, f.subject_hint, cfg, now)]
        ELSE [raises |-> ChunkingRaises(<<f.content>>, cfg),
              path |-> f.filename,
              text |-> f.content,
              processed |-> ProcessText(f.content, f.filename, f.subject_hint, cfg, now)]]

\* query_router.route for the query payloads, evaluated once
QueryRouting ==
    [request \in QueryRequests |-> Route(request.query, SubjectContext(request.subject))]

\* No handler has answered yet.
NoReply == [op |-> "none"]

\* the frame of a query_rag coroutine: none runs in the slot
NoQuery == [pc |-> "none"]

(***************************************************************************)
(* The /rag handlers (routers/rag_routes.py).  reply is the last exchange  *)
(* of a handler that ran to its end without suspending; queries[c] is the  *)
(* frame of the query_rag coroutine whose generate() call is calls[c].     *)
(***************************************************************************)
Store ==
    [chunks |-> chunks, embeddings |-> embeddings, by_subject |-> by_subject,
     by_doc_type |-> by_doc_type, by_topic |-> by_topic]

StoreBecomes(store) ==
    /\ chunks' = store.chunks
    /\ embeddings' = store.embeddings
    /\ by_subject' = store.by_subject
    /\ by_doc_type' = store.by_doc_type
    /\ by_topic' = store.by_topic

\* vector_store.add_chunks(processed.chunks) on the singleton store
StoreAddChunks(new_chunks) ==
    \E emb \in EmbeddersAfter(embedder, new_chunks) :
        /\ embedder' = emb
        /\ StoreBecomes(AddChunks(Store, emb, new_chunks))

\* the body upload_text_content returns (rag_routes.py 157-163)
UploadTextBody(processed) ==
    [success |-> TRUE,
     document_id |-> processed.doc_id,
     chunks_created |-> Len(processed.chunks),
     subject |-> processed.subject,
     doc_type |-> processed.doc_type]

\* the DocumentUploadResponse upload_document returns (rag_routes.py 124-131)
DocumentUploadResponse(file, processed) ==
    [success |-> TRUE,
     document_id |-> processed.doc_id,
     chunks_created |-> Len(processed.chunks),
     subject |-> processed.subject,
     doc_type |-> processed.doc_type,
     message |-> "Successfully processed '" \o file.filename \o "' into "
                 \o ToString(Len(processed.chunks)) \o " chunks"]

\* what an upload handler does with the outcome of the pipeline
Ingest(op, request, outcome, detail_prefix) ==
    IF outcome.raises
    THEN /\ reply' = [op |-> op, request |-> request, status |-> 500,
                      body |-> detail_prefix \o "range() arg 3 must not be zero"]
         /\ UNCHANGED <<storeVars, ingested>>
    ELSE /\ ingested' = Append(ingested, [path |-> outcome.path,
                                         text |-> outcome.text,
                                         pipeline |-> pipeline,
                                         processed |-> outcome.processed])
         /\ StoreAddChunks(outcome.processed.chunks)
         /\ reply' = [op |-> op, request |-> request, status |-> 200,
                      body |-> IF op = "upload-text"
                               THEN UploadTextBody(outcome.processed)
                               ELSE DocumentUploadResponse(request, outcome.processed)]
         /\ UNCHANGED total_retrievals

\* POST /rag/upload-text
UploadTextContent(u) ==
    /\ clock < MaxUploads
    /\ clock' = clock + 1
    /\ Ingest("upload-text", u,
              IF u \in ChunkTexts THEN ChunkIngestion[pipeline, u, clock]
              ELSE TextIngestion[pipeline, u, clock],
              "")
    /\ UNCHANGED <<llmVars, queries, pipeline>>

\* POST /rag/upload
UploadDocument(file) ==
    /\ clock < MaxUploads
    /\ clock' = clock + 1
    /\ LET file_ext == Lower(SplitExtExt(file.filename))
       IN IF ~Truthy(file.filename)
          THEN /\ reply' = [op |-> "upload", request |-> file, status |-> 400,
                            body |-> "No filename provided"]
               /\ UNCHANGED <<storeVars, ingested>>
          ELSE IF file_ext \notin Range(allowed_extensions)
          THEN /\ reply' = [op |-> "upload", request |-> file, status |-> 400,
                            body |-> "Unsupported file type. Allowed: "
                                     \o "['.pdf', '.txt', '.md']"]
               /\ UNCHANGED <<storeVars, ingested>>
          ELSE \E tmp_path \in TempPaths(file_ext) :
                  Ingest("upload", file,
                         FileIngestion[pipeline, file, tmp_path, clock],
                         "Error processing document: ")
    /\ UNCHANGED <<llmVars, queries, pipeline>>

\* DELETE /rag/clear
ClearVectorStore ==
    /\ StoreBecomes(EmptyStore)
    /\ reply' = [op |-> "clear", request |-> <<>>, status |-> 200,
                 body |-> [success |-> TRUE, message |-> "Vector store cleared"]]
    /\ UNCHANGED <<llmVars, queries, embedder, total_retrievals, ingestVars>>

\* GET /rag/route-preview
PreviewRouting(query, subject) ==
    /\ LET routing == PreviewRoute[query, subject]
       IN reply' = [op |-> "route-preview",
                    request |-> [query |-> query, subject |-> subject],
                    status |-> 200,
                    body |-> [route |-> routing.route,
                              intent |-> routing.intent,
                              confidence |-> routing.confidence,
                              reasoning |-> routing.reasoning,
                              suggested_filters |-> routing.suggested_filters]]
    /\ UNCHANGED <<llmVars, queries, storeVars, ingestVars>>

\* A parse that hands a value outside the enumeration on as the filter.
ParseEnumKeepsUnknown(value, members) ==
    IF Truthy(value) THEN value ELSE NoneStr

\* DocumentType(value) / Difficulty(value) under `if value:` and
\* `except ValueError: pass`
ParseEnum(value, members) ==
    IF Truthy(value) /\ value \in members THEN value ELSE NoneStr

\* QueryResponse(...) of query_rag
QueryResponse(response, routing) ==
    [answer |-> response.answer,
     citations |-> response.citations,
     confidence |-> response.confidence,
     route_used |-> response.route_used,
     reasoning |-> routing.reasoning]

\* the frame of a query_rag coroutine whose execute() has returned response
Answered(frame, response) ==
    [frame EXCEPT !.pc = "answered", !.status = 200, !.response = response,
                  !.body = QueryResponse(response, frame.routing)]

\* the frames, once the step has run generate() of slot c as far as it goes:
\* execute() goes on when generate() has returned, and query_rag turns an
\* exception into a 500
AfterGenerate(qs, c) ==
    IF qs[c].pc # "generating" THEN qs
    ELSE IF calls'[c].pc = "returned"
    THEN [qs EXCEPT ![c] =
             Answered(qs[c], GroundedResponse(qs[c].retrieval_results, qs[c].routing,
                                              heap'[calls'[c].result].content,
                                              calls'[c].result))]
    ELSE IF calls'[c].pc = "raised"
    THEN [qs EXCEPT ![c] = [qs[c] EXCEPT !.pc = "failed", !.status = 500,
                                         !.body = <<"Query error: ", calls'[c].raised>>]]
    ELSE qs

\* the frames of the coroutines that are suspended; a finished coroutine's
\* frame is kept, for inspection, until the next generate() call begins
CollectedQueries ==
    [d \in CallIds |-> IF calls[d].pc = "awaiting" THEN queries[d] ELSE NoQuery]

\* A filter choice that prefers the router's suggestion to the argument.
EffectiveSubjectSuggestionFirst(subject, routing_decision) ==
    IF "subject" \in DOMAIN routing_decision.suggested_filters
    THEN routing_decision.suggested_filters["subject"]
    ELSE subject

\* rag_executor.py:75-76: the subject execute() passes to retrieve()
EffectiveSubject(subject, routing_decision) ==
    IF ~Truthy(subject) /\ "subject" \in DOMAIN routing_decision.suggested_filters
    THEN routing_decision.suggested_filters["subject"]
    ELSE subject

\* A filter choice that takes the router's doc_type suggestion when the
\* caller gives no doc_type.
EffectiveDocTypeSuggestionWhenAbsent(doc_type, routing_decision) ==
    IF ~Truthy(doc_type) /\ "doc_type" \in DOMAIN routing_decision.suggested_filters
    THEN routing_decision.suggested_filters["doc_type"]
    ELSE doc_type

\* rag_executor.py:83: doc_type_filter=doc_type, the argument as it came
EffectiveDocType(doc_type, routing_decision) == doc_type

\* rag_executor.py:74-86: what vector_store.retrieve may return to execute()
ExecuteRetrieval(query, routing_decision, subject_arg, doc_type, difficulty) ==
    RetrieveOutcomes(Store, embedder, query, max_context_chunks,
                     EffectiveSubject(subject_arg, routing_decision),
                     EffectiveDocType(doc_type, routing_decision),
                     difficulty, min_retrieval_score)

\* rag_executor.execute, called by the query_rag coroutine of `frame`
Execute(c, frame, subject_arg, doc_type, difficulty) ==
    LET routing_decision == frame.routing
        subject == EffectiveSubject(subject_arg, routing_decision)
    IN \E retrieval_results \in
            ExecuteRetrieval(frame.request.query, routing_decision, subject_arg,
                             doc_type, difficulty) :
          LET executing == [frame EXCEPT !.subject = subject,
                                         !.retrieval_results = retrieval_results]
          IN /\ total_retrievals' = total_retrievals + 1
             /\ IF ~SufficientContext(retrieval_results)
                THEN /\ LET answered ==
                              Answered(executing,
                                       InsufficientContextResponse(routing_decision))
                        IN reply' = [op |-> "query", request |-> frame.request,
                                     status |-> answered.status,
                                     body |-> answered.body, frame |-> answered]
                     /\ UNCHANGED <<llmVars, queries>>
                ELSE /\ Generate(c,
                                 BuildUserPrompt(frame.request.query,
                                                 FormatContext(retrieval_results),
                                                 routing_decision.intent),
                                 BuildSystemPrompt(routing_decision.intent),
                                 TRUE)
                     /\ queries' = AfterGenerate(
                                      [CollectedQueries EXCEPT ![c] = executing], c)
                     /\ UNCHANGED reply

\* The calls of execute() by callers that make up the routing decision
\* themselves, as theory.py:19-34 (a topic suggestion) and
\* question_bank.py:174-184 (a subject suggestion) do, with and without a
\* subject argument, and with the doc_type and topic suggestions that
\* _suggest_filters makes.
CallerRouting(suggested_filters) ==
    [route |-> RAG, intent |-> "theory_explanation", confidence |-> 100,
     reasoning |-> "User requested theory mode content.",
     suggested_filters |-> suggested_filters]

ExecuteCalls ==
    {[query |-> "Explain the law of inertia", subject |-> call.subject,
      doc_type |-> NoneStr, difficulty |-> NoneStr, use_cache |-> TRUE,
      routing |-> CallerRouting(call.suggested)] :
        call \in {[subject |-> NoneStr, suggested |-> ("topic" :> "Inertia")],
                  [subject |-> NoneStr, suggested |-> ("subject" :> "Physics")],
                  [subject |-> NoneStr, suggested |-> ("subject" :> "Chemistry")],
                  [subject |-> "Chemistry", suggested |-> ("subject" :> "physics")],
                  [subject |-> "PHYSICS", suggested |-> ("subject" :> "chemistry")],
                  [subject |-> "Physics", suggested |-> EmptyDict],
                  [subject |-> "Physics", suggested |-> ("doc_type" :> "lab_manual")],
                  [subject |-> "Physics", suggested |-> ("topic" :> "Thermodynamics")],
                  [subject |-> NoneStr,
                   suggested |-> ("subject" :> "Physics") @@ ("doc_type" :> "exam_paper")
                                  @@ ("topic" :> "Inertia")],
                  [subject |-> "", suggested |-> ("subject" :> "Physics")]}}

\* await rag_executor.execute(query, routing_decision, subject, ...) by such
\* a caller; the exchange is recorded as that of query_rag is
ExecuteWith(c, call) ==
    /\ total_retrievals < MaxQueries
    /\ Execute(c,
               [pc |-> "generating", no |-> total_retrievals + 1,
                request |-> [query |-> call.query, subject |-> call.subject,
                             doc_type |-> call.doc_type,
                             difficulty |-> call.difficulty,
                             use_cache |-> call.use_cache],
                routing |-> call.routing,
                subject |-> call.subject, doc_type |-> NoneStr,
                difficulty |-> NoneStr, retrieval_results |-> <<>>,
                status |-> 0, response |-> <<>>, body |-> <<>>],
               call.subject, NoneStr, NoneStr)
    /\ UNCHANGED <<chunks, embeddings, by_subject, by_doc_type, by_topic, embedder,
                   ingestVars>>

\* POST /rag/query
QueryRag(c, request) ==
    /\ total_retrievals < MaxQueries
    /\ LET doc_type_filter == ParseEnum(request.doc_type, DocumentType)
           difficulty_filter == ParseEnum(request.difficulty, Difficulty)
           routing == QueryRouting[request]
       IN Execute(c,
                  [pc |-> "generating", no |-> total_retrievals + 1,
                   request |-> request, routing |-> routing,
                   subject |-> request.subject, doc_type |-> doc_type_filter,
                   difficulty |-> difficulty_filter, retrieval_results |-> <<>>,
                   status |-> 0, response |-> <<>>, body |-> <<>>],
                  request.subject, doc_type_filter, difficulty_filter)
    /\ UNCHANGED <<chunks, embeddings, by_subject, by_doc_type, by_topic, embedder,
                   ingestVars>>

\* generate() called by a handler outside /rag (question_bank.py:208,
\* theory.py:50)
GenerateStart(c, prompt, system_prompt, use_cache) ==
    /\ Generate(c, prompt, system_prompt, use_cache)
    /\ queries' = CollectedQueries
    /\ UNCHANGED <<storeVars, ingestVars, reply>>

\* llm_manager.py:257-279: the awaited HTTP call returned a well-formed reply
ProviderReturns(c, content) ==
    /\ calls[c].pc = "awaiting"
    /\ LET rec == calls[c]
           p == provider_priority[rec.pi]
           model == ModelsToTry(providers[p])[rec.mi]
       IN Succeed(calls, c, rec, LLMResponse(content, p, model, 0))
    /\ UNCHANGED <<providers, provider_priority, total_requests, fallback_count>>
    /\ queries' = AfterGenerate(queries, c)
    /\ UNCHANGED <<storeVars, ingestVars, reply>>

\* llm_manager.py:207-210: the awaited call raised an Exception
ProviderRaises(c) ==
    /\ calls[c].pc = "awaiting"
    /\ fallback_count' = fallback_count + 1
    /\ LET rec == calls[c]
           p == provider_priority[rec.pi]
           model == ModelsToTry(providers[p])[rec.mi]
           rec2 == [rec EXCEPT !.last_error = ProviderError(p, model),
                               !.attempts = Append(rec.attempts,
                                   [provider |-> p, model |-> model, ok |-> FALSE,
                                    rid |-> 0])]
       IN Resume(calls, c, rec2, AfterFailure(rec.pi, rec.mi))
    /\ UNCHANGED <<providers, provider_priority, total_requests>>
    /\ queries' = AfterGenerate(queries, c)
    /\ UNCHANGED <<storeVars, ingestVars, reply>>

\* llm_manager.py:189: the task that runs generate() is cancelled while it is
\* suspended in the provider call.  asyncio raises CancelledError at the
\* await; it is no Exception, so neither the except clause of generate()
\* nor the one of query_rag catches it.
Abandon(c) ==
    /\ calls[c].pc = "awaiting"
    /\ calls' = [calls EXCEPT ![c].pc = "cancelled"]
    /\ queries' = IF queries[c].pc = "generating"
                  THEN [queries EXCEPT ![c].pc = "cancelled"]
                  ELSE queries
    /\ UNCHANGED <<providers, provider_priority, total_requests,
                   successful_requests, failed_requests, provider_usage,
                   fallback_count, cache, heap, storeVars, ingestVars, reply>>

\* clear_cache
ClearCache ==
    /\ cache # <<>>
    /\ cache' = <<>>
    /\ UNCHANGED <<providers, provider_priority, total_requests,
                   successful_requests, failed_requests, provider_usage,
                   fallback_count, heap, calls, ragVars>>

\* The prompts of the direct callers of generate (question_bank.py:208,
\* theory.py:50), as small strings.
Requests ==
    {[prompt |-> "ab", system_prompt |-> NoneStr],
     [prompt |-> "b", system_prompt |-> "a"],
     [prompt |-> "lab", system_prompt |-> NoneStr]}

\* __init__ (llm_manager.py:69-83) with the registry (prio, provs); the
\* module-level singletons of the other components are freshly built

ComponentsInit(prio, provs, pipeline_config) ==
    /\ providers = provs
    /\ provider_priority = prio
    /\ total_requests = 0
    /\ successful_requests = 0
    /\ failed_requests = 0
    /\ provider_usage = <<>>
    /\ fallback_count = 0
    /\ cache = <<>>
    /\ heap = <<>>
    /\ calls = [c \in CallIds |-> IdleCall]
    /\ chunks = EmptyStore.chunks
    /\ embeddings = EmptyStore.embeddings
    /\ by_subject = EmptyStore.by_subject
    /\ by_doc_type = EmptyStore.by_doc_type
    /\ by_topic = EmptyStore.by_topic
    /\ embedder = NewEmbedder
    /\ total_retrievals = 0
    /\ pipeline = pipeline_config
    /\ clock = 0
    /\ ingested = <<>>
    /\ queries = [c \in CallIds |-> NoQuery]
    /\ reply = NoReply

\* the singletons: ingestion_pipeline = DocumentIngestionPipeline()
ManagerInit(prio, provs) == ComponentsInit(prio, provs, DefaultPipeline)

\* __init__: a manager built in an environment holding the API keys `keys`
LLMInit(keys) == ManagerInit(InitPriority(keys), InitProviders(keys))

Init == \E keys \in SUBSET EnvKeys : LLMInit(keys)

Next ==
    \/ \E c \in CallIds, r \in Requests, uc \in BOOLEAN :
          GenerateStart(c, r.prompt, r.system_prompt, uc)
    \/ \E c \in CallIds, content \in ExternalContents : ProviderReturns(c, content)
    \/ \E c \in CallIds : ProviderRaises(c)

Spec == Init /\ [][Next]_vars

(***************************************************************************)
(* generate() on a registry its owner has edited.  providers and           *)
(* provider_priority are plain attributes of the manager; generate()       *)
(* itself allows for a priority entry that has no config                   *)
(* (llm_manager.py:179-180) and for a chain that ends without a success    *)
(* (llm_manager.py:212-214).  These registries are the ones on which the   *)
(* whole provider x model matrix can fail.                                 *)
(***************************************************************************)
Registries ==
    {[priority |-> <<>>, present |-> {}],
     [priority |-> <<OPENAI>>, present |-> {OPENAI}],
     [priority |-> <<OPENAI, GROQ>>, present |-> {OPENAI, GROQ}],
     [priority |-> <<GROQ, OPENAI>>, present |-> {OPENAI}],
     [priority |-> <<OPENAI, LOCAL_PROVIDER>>, present |-> {OPENAI, LOCAL_PROVIDER}]}

RegistryInit ==
    \E r \in Registries :
        ManagerInit(r.priority, [p \in r.present |-> ConfigOf(p)])

SpecRegistry == RegistryInit /\ [][Next]_vars

(***************************************************************************)
(* generate() and clear_cache() on a manager built with no API key or with *)
(* the Groq key, and on a registry that holds OpenAI only, called with     *)
(* prompts of three different cache keys; a suspended call may be          *)
(* cancelled.                                                              *)
(***************************************************************************)
CacheRequests ==
    Requests \cup {[prompt |-> "example", system_prompt |-> NoneStr]}

CacheInit ==
    \/ \E keys \in {{}, {"GROQ_API_KEY"}} : LLMInit(keys)
    \/ ManagerInit(<<OPENAI>>, [p \in {OPENAI} |-> ConfigOf(p)])

CacheNext ==
    \/ \E c \in CallIds, r \in CacheRequests, uc \in BOOLEAN :
          GenerateStart(c, r.prompt, r.system_prompt, uc)
    \/ \E c \in CallIds, content \in ExternalContents : ProviderReturns(c, content)
    \/ \E c \in CallIds : ProviderRaises(c)
    \/ \E c \in CallIds : Abandon(c)
    \/ ClearCache

SpecCache == CacheInit /\ [][CacheNext]_vars

(***************************************************************************)
(* The router on its own.                                                  *)
(***************************************************************************)
RouterNext ==
    \E query \in PreviewQueries, subject \in PreviewSubjects :
        PreviewRouting(query, subject)

SpecRouter == LLMInit({}) /\ [][RouterNext]_vars

(***************************************************************************)
(* The /rag service: uploads, clears and queries on the singletons, with   *)
(* the local responder alone or behind one external provider.              *)
(***************************************************************************)
RagInit == \E keys \in {{}, {"OPENAI_API_KEY"}} : LLMInit(keys)

RagNext ==
    \/ \E u \in TextUploads : UploadTextContent(u)
    \/ \E file \in FileUploads : UploadDocument(file)
    \/ ClearVectorStore
    \/ \E c \in CallIds, request \in QueryRequests : QueryRag(c, request)
    \/ \E c \in CallIds, content \in ExternalContents : ProviderReturns(c, content)
    \/ \E c \in CallIds : ProviderRaises(c)

SpecRAG == RagInit /\ [][RagNext]_vars

(***************************************************************************)
(* execute() called with routing decisions of the caller's making, on the  *)
(* store that text uploads have filled.                                    *)
(***************************************************************************)
ExecuteNext ==
    \/ \E u \in TextUploads : UploadTextContent(u)
    \/ \E c \in CallIds, call \in ExecuteCalls : ExecuteWith(c, call)
    \/ \E c \in CallIds, content \in ExternalContents : ProviderReturns(c, content)
    \/ \E c \in CallIds : ProviderRaises(c)

SpecExecute == RagInit /\ [][ExecuteNext]_vars

(***************************************************************************)
(* The store under batches that refit the embedder: text uploads, the      *)
(* upload of a document of eleven chunks, clears, and queries with a       *)
(* subject filter, answered by the local responder.                        *)
(***************************************************************************)
StoreInit == LLMInit({})

StoreNext ==
    \/ \E u \in TextUploads : UploadTextContent(u)
    \/ \E file \in BatchUploads : UploadDocument(file)
    \/ ClearVectorStore
    \/ \E c \in CallIds, request \in {r \in QueryRequests : Truthy(r.subject)} :
          QueryRag(c, request)

SpecStore == StoreInit /\ [][StoreNext]_vars

(***************************************************************************)
(* The chunking of short texts by pipelines of small chunk sizes.          *)
(***************************************************************************)
ChunkingInit ==
    \E cfg \in ChunkConfigs :
        ComponentsInit(InitPriority({}), InitProviders({}), cfg)

ChunkingNext == \E u \in ChunkTexts : UploadTextContent(u)

SpecChunking == ChunkingInit /\ [][ChunkingNext]_vars

(***************************************************************************)
(* Claims about generate().                                                *)
(***************************************************************************)
\* The fallback chain as the specification words it: providers in priority
\* order, and for each its default model followed by its fallback models.
RECURSIVE FallbackChain(_)
FallbackChain(prio) ==
    IF prio = <<>> THEN <<>>
    ELSE (IF Head(prio) \in DOMAIN providers
          THEN LET cfg == providers[Head(prio)] IN
               <<[provider |-> Head(prio), model |-> cfg.default_model]>>
               \o [i \in 1..Len(cfg.fallback_models) |->
                     [provider |-> Head(prio), model |-> cfg.fallback_models[i]]]
          ELSE <<>>)
         \o FallbackChain(Tail(prio))

\* The pairs call c has attempted or is attempting, in order.
Attempted(c) ==
    [i \in 1..Len(calls[c].attempts) |->
        [provider |-> calls[c].attempts[i].provider,
         model |-> calls[c].attempts[i].model]]
    \o (IF calls[c].pc = "awaiting"
        THEN <<[provider |-> provider_priority[calls[c].pi],
                model |-> ModelsToTry(providers[provider_priority[calls[c].pi]])[calls[c].mi]]>>
        ELSE <<>>)

\* C1: a generate call that misses the cache attempts the (provider, model)
\* pairs in priority order, default model first and then the fallbacks in
\* list order, each pair at most once, every attempt before the last having
\* failed; it returns the response of the first attempt that succeeds, and
\* that attempt is its last.
C1_FallbackOrder ==
    \A c \in CallIds :
        LET rec == calls[c]
            att == Attempted(c)
            chain == FallbackChain(provider_priority)
        IN (rec.pc # "idle" /\ ~rec.hit) =>
            /\ Len(att) <= Len(chain)
            /\ \A i \in 1..Len(att) : att[i] = chain[i]
            /\ \A i, j \in 1..Len(att) : i < j => att[i] # att[j]
            /\ \A i \in 1..Len(rec.attempts) :
                  rec.attempts[i].ok => (i = Len(rec.attempts) /\ rec.pc = "returned")
            /\ rec.pc = "returned" =>
                  /\ rec.attempts # <<>>
                  /\ rec.attempts[Len(rec.attempts)].ok
                  /\ rec.result = rec.attempts[Len(rec.attempts)].rid
                  /\ heap[rec.result].provider = chain[Len(rec.attempts)].provider
                  /\ heap[rec.result].model = chain[Len(rec.attempts)].model

\* C1 witness: a call returned the response of a fallback model of the
\* second provider after four failed attempts.
C1_Witness ==
    \E c \in CallIds :
        /\ calls[c].pc = "returned"
        /\ ~calls[c].hit
        /\ Len(calls[c].attempts) = 5
        /\ calls[c].attempts[1].provider # calls[c].attempts[5].provider

\* C2 (state part): a finished call has failed exactly when it attempted
\* every pair of the matrix and every attempt raised; the raised error then
\* carries the error of the last attempt.
C2_FailsIffAllRaised ==
    \A c \in CallIds :
        LET rec == calls[c]
            chain == FallbackChain(provider_priority)
        IN (rec.pc \in {"returned", "raised"}) =>
            /\ (rec.pc = "raised") <=>
                 (/\ ~rec.hit
                  /\ Len(rec.attempts) = Len(chain)
                  /\ \A i \in 1..Len(rec.attempts) : ~rec.attempts[i].ok)
            /\ (rec.pc = "raised" /\ rec.attempts # <<>>) =>
                 rec.raised[2] =
                    ProviderError(rec.attempts[Len(rec.attempts)].provider,
                                  rec.attempts[Len(rec.attempts)].model)

\* C2 (step part): the step in which a call fails raises failed_requests by
\* exactly 1 and leaves successful_requests, provider_usage and the cache
\* as they were; no other step changes failed_requests.
C2_FailureStep ==
    /\ (\E c \in CallIds : calls'[c].pc = "raised" /\ calls'[c] # calls[c]) =>
          /\ failed_requests' = failed_requests + 1
          /\ successful_requests' = successful_requests
          /\ provider_usage' = provider_usage
          /\ cache' = cache
    /\ failed_requests' # failed_requests =>
          \E c \in CallIds : calls'[c].pc = "raised" /\ calls'[c] # calls[c]

\* C2: a generate call fails if and only if every attempt over the whole
\* provider x model matrix raised; the error carries the last attempt's
\* error, failed_requests grows by exactly 1 and successful_requests,
\* provider_usage and the cache are unchanged.
C2_FailureOnlyWhenExhausted == [](C2_FailsIffAllRaised) /\ [][C2_FailureStep]_vars

\* C2 witness: a call failed after both models of its only provider raised.
C2_Witness ==
    \E c \in CallIds :
        /\ calls[c].pc = "raised"
        /\ Len(calls[c].attempts) = 2
        /\ failed_requests = 1

\* C3: whatever API keys were configured at startup, the local responder is
\* registered and is last in the priority list, and no generate call fails:
\* every finished call has returned a response.
C3_LocalAlwaysLast ==
    /\ LOCAL_PROVIDER \in DOMAIN providers
    /\ provider_priority # <<>>
    /\ provider_priority[Len(provider_priority)] = LOCAL_PROVIDER
    /\ failed_requests = 0
    /\ \A c \in CallIds :
          /\ calls[c].pc # "raised"
          /\ calls[c].pc = "returned" => calls[c].result \in 1..Len(heap)

\* C3 witness: every external attempt of a call raised (three providers,
\* eight models) and the call returned the local responder's answer.
C3_Witness ==
    \E c \in CallIds :
        /\ calls[c].pc = "returned"
        /\ Len(calls[c].attempts) = 9
        /\ heap[calls[c].result].provider = LOCAL_PROVIDER

\* The cache as a dict of LLMResponse values.
CacheContents ==
    [i \in 1..Len(cache) |-> [key |-> cache[i].key, response |-> heap[cache[i].rid]]]

\* A step in which call c is answered from the cache.
CacheHitStep(c) == calls'[c].hit /\ calls'[c] # calls[c]

\* C4: a generate call with use_cache true whose key is in the cache returns
\* the stored response with cached = true and calls no provider:
\* fallback_count, successful_requests, provider_usage and the contents of
\* the cache are the same before and after the call.
C4_CacheHitChangesNothing ==
    [][\A c \in CallIds :
          (/\ calls'[c].req = total_requests + 1
           /\ calls'[c].use_cache
           /\ calls'[c].cache_key \in CacheKeys(cache)) =>
             /\ calls'[c].pc = "returned"
             /\ calls'[c].hit
             /\ calls'[c].attempts = <<>>
             /\ calls'[c].result = CacheGet(cache, calls'[c].cache_key)
             /\ heap'[calls'[c].result].cached
             /\ fallback_count' = fallback_count
             /\ successful_requests' = successful_requests
             /\ provider_usage' = provider_usage
             /\ CacheContents' = CacheContents]_vars

\* The attempts of a call's record that failed / that succeeded at provider q.
FailedAttempts(rec) ==
    {i \in 1..Len(rec.attempts) : ~rec.attempts[i].ok}

SuccessesAt(rec, q) ==
    {i \in 1..Len(rec.attempts) : rec.attempts[i].ok /\ rec.attempts[i].provider = q}

\* The attempts call c has made in this step: those of calls'[c] beyond the
\* ones calls[c] held for the same request.
AttemptsNow(c) ==
    LET before == IF calls[c].req = calls'[c].req THEN Len(calls[c].attempts) ELSE 0
    IN SubSeq(calls'[c].attempts, before + 1, Len(calls'[c].attempts))

\* Every request made so far still has its record in a slot.
AllOnRecord ==
    total_requests = Cardinality({c \in CallIds : calls[c].pc # "idle"})

\* How often provider q is counted in provider_usage.
UsageOf(usage, q) == IF q \in DOMAIN usage THEN usage[q] ELSE 0

RECURSIVE SumOver(_, _)
SumOver(f, S) ==
    IF S = {} THEN 0
    ELSE LET x == CHOOSE y \in S : TRUE IN f[x] + SumOver(f, S \ {x})

\* One step of the call in slot c: every attempt that failed adds 1 to
\* fallback_count and nothing else; the attempt that succeeded at provider B
\* adds 1 to successful_requests and to provider_usage[B], leaves every
\* other usage count alone, and its response is what the call returns.
C13_AttemptStep(c) ==
    (calls'[c] # calls[c] /\ calls'[c].pc # "idle") =>
        LET now == [attempts |-> AttemptsNow(c)]
        IN /\ fallback_count' - fallback_count = Cardinality(FailedAttempts(now))
           /\ \A q \in LLMProvider :
                 UsageOf(provider_usage', q) - UsageOf(provider_usage, q)
                    = Cardinality(SuccessesAt(now, q))
           /\ successful_requests' - successful_requests
                 = SumOver([q \in LLMProvider |-> Cardinality(SuccessesAt(now, q))],
                           LLMProvider)
           /\ successful_requests' - successful_requests <= 1
           /\ \A i \in 1..Len(now.attempts) :
                 now.attempts[i].ok =>
                    /\ i = Len(now.attempts)
                    /\ calls'[c].pc = "returned"
                    /\ calls'[c].result = now.attempts[i].rid
                    /\ heap'[calls'[c].result].provider = now.attempts[i].provider

\* While every request is on record, the counters are the sums over the
\* records.
C13_Counters ==
    AllOnRecord =>
        /\ fallback_count =
              SumOver([c \in CallIds |-> Cardinality(FailedAttempts(calls[c]))], CallIds)
        /\ \A q \in LLMProvider :
              UsageOf(provider_usage, q) =
                 SumOver([c \in CallIds |-> Cardinality(SuccessesAt(calls[c], q))], CallIds)

\* C13: a cache-missing call that succeeds at provider B after every attempt
\* on the higher-priority provider A failed returns B's response; it has
\* added its number of failed attempts (at least 1) to fallback_count, 1 to
\* successful_requests and 1 to provider_usage[B], and nothing to
\* provider_usage[A].
C13_FallbackAccounting ==
    /\ [] C13_Counters
    /\ [][\A c \in CallIds : C13_AttemptStep(c)]_vars

\* C13 witness: the only call made so far failed on every Groq model and
\* returned the response of OpenAI.
C13_Witness ==
    /\ total_requests = 1
    /\ calls[1].pc = "returned"
    /\ ~calls[1].hit
    /\ provider_priority[1] = GROQ
    /\ FailedAttempts(calls[1]) # {}
    /\ \A i \in FailedAttempts(calls[1]) : calls[1].attempts[i].provider = GROQ
    /\ Cardinality(FailedAttempts(calls[1])) = Len(ModelsToTry(providers[GROQ]))
    /\ heap[calls[1].result].provider = OPENAI
    /\ fallback_count = Cardinality(FailedAttempts(calls[1]))
    /\ successful_requests = 1
    /\ provider_usage = (OPENAI :> 1)

\* The texts _local_response can return.
LocalContents ==
    {"LOCAL_EXPLANATION", "LOCAL_EXAMPLE", "LOCAL_LAB_PROCEDURE", "LOCAL_GENERIC"}

\* r is an LLMResponse as a provider call of this manager returns it: every
\* field set, by a provider of the registry, for one of its models.
CompleteResponse(r) ==
    /\ DOMAIN r = {"content", "provider", "model", "tokens_used", "cached"}
    /\ r.provider \in DOMAIN providers
    /\ \E i \in 1..Len(ModelsToTry(providers[r.provider])) :
          r.model = ModelsToTry(providers[r.provider])[i]
    /\ r.content \in (IF r.provider = LOCAL_PROVIDER
                       THEN LocalContents ELSE ExternalContents)

\* Every cache entry refers to a complete response.
C14_EntriesComplete ==
    \A k \in 1..Len(cache) :
        /\ cache[k].rid \in 1..Len(heap)
        /\ CompleteResponse(heap[cache[k].rid])

\* Call c has, in this step, got a complete response from a provider call
\* and stored it: the only entry of the cache that is new is that response
\* under the call's key.
C14_StoredBy(c) ==
    /\ calls'[c].pc = "returned"
    /\ ~calls'[c].hit
    /\ calls'[c].use_cache
    /\ calls'[c].attempts # <<>>
    /\ calls'[c].attempts[Len(calls'[c].attempts)].ok
    /\ calls'[c].result = Len(heap) + 1
    /\ Len(heap') = Len(heap) + 1
    /\ CompleteResponse(heap'[calls'[c].result])
    /\ \A k \in 1..Len(cache') :
          \/ \E j \in 1..Len(cache) : cache'[k] = cache[j]
          \/ cache'[k] = [key |-> calls'[c].cache_key, rid |-> calls'[c].result]

C14_CacheStep ==
    /\ cache' # cache => (cache' = <<>> \/ \E c \in CallIds : C14_StoredBy(c))
    /\ \A c \in CallIds :
          (calls'[c] # calls[c] /\ calls'[c].pc \in {"awaiting", "raised", "cancelled"})
             => cache' = cache

\* C14: under any interleaving of generate calls, the cache changes only
\* when clear_cache empties it or in the step in which a provider call has
\* returned a complete response, which is then the one entry written; a
\* call that suspends, fails or is abandoned while suspended leaves the
\* cache unchanged, and every entry is a response some provider call
\* returned in full.
C14_OnlyCompleteResponsesCached ==
    /\ [] C14_EntriesComplete
    /\ [][C14_CacheStep]_vars

\* C14 witness: of two concurrent calls that use the cache, one was
\* abandoned after a failed attempt and left no entry, the other one
\* returned and its response is in the cache.
C14_Witness ==
    /\ calls[1].pc = "cancelled"
    /\ calls[1].use_cache
    /\ FailedAttempts(calls[1]) # {}
    /\ calls[1].cache_key \notin CacheKeys(cache)
    /\ calls[2].pc = "returned"
    /\ ~calls[2].hit
    /\ cache = <<[key |-> calls[2].cache_key, rid |-> calls[2].result]>>

\* Call c is answered from the cache in this step.
HitNow(c) == calls'[c] # calls[c] /\ calls'[c].pc = "returned" /\ calls'[c].hit

\* The record in slot d is that of the call that stored response rid.
StoredBy(d, rid) ==
    /\ calls[d].pc = "returned"
    /\ ~calls[d].hit
    /\ calls[d].use_cache
    /\ calls[d].result = rid

\* C15: a call is answered from the cache only with a response that was
\* stored by a request of the same system_prompt and the same prompt.
C15_HitOnlyForSamePair ==
    [][\A c, d \in CallIds :
          (HitNow(c) /\ StoredBy(d, calls'[c].result)) =>
             /\ calls[d].prompt = calls'[c].prompt
             /\ calls[d].system_prompt = calls'[c].system_prompt]_vars

\* A key that was not in the cache is inserted into a full cache: exactly one
\* entry goes, every other entry stays as it was, and the entry that goes
\* held a response created before the response of every entry that stays
\* (responses are numbered in order of creation, and an entry is inserted
\* when its response is created).
C12_EvictionStep ==
    LET inserted == CacheKeys(cache') \ CacheKeys(cache)
        removed == CacheKeys(cache) \ CacheKeys(cache')
    IN (inserted # {} /\ Len(cache) >= cache_max_size) =>
          /\ Cardinality(inserted) = 1
          /\ Cardinality(removed) = 1
          /\ Len(cache') = Len(cache)
          /\ \A i \in 1..Len(cache) :
                IF cache[i].key \in removed
                THEN \A j \in 1..Len(cache) : j # i => cache[j].rid > cache[i].rid
                ELSE \E k \in 1..Len(cache') : cache'[k] = cache[i]

\* C12: the cache never holds more than cache_max_size entries, and when a
\* new key is inserted into a full cache the one entry removed is the one
\* inserted earliest among those present.
C12_BoundedOldestOut ==
    /\ [](Len(cache) <= cache_max_size /\ Cardinality(CacheKeys(cache)) = Len(cache))
    /\ [][C12_EvictionStep]_vars

\* C12 witness: the fourth response created was stored under a new key in a
\* full cache, and the key that was first in the cache is gone.
C12_Witness ==
    \E c \in CallIds :
        /\ calls[c].pc = "returned"
        /\ calls[c].oldest # NoneStr
        /\ calls[c].oldest \notin CacheKeys(cache)
        /\ calls[c].cache_key \in CacheKeys(cache)
        /\ Len(cache) = cache_max_size
        /\ Len(heap) = 4

(***************************************************************************)
(* Claims about the RAG Executor, the Vector Store and the Ingestion       *)
(* Pipeline as the /rag handlers drive them.                               *)
(***************************************************************************)
\* The query exchanges on record: the frames of the query_rag coroutines
\* and the last reply, when it answers a query.
QueryExchanges ==
    {queries[c] : c \in {d \in CallIds : queries[d].pc # "none"}}
    \cup (IF reply.op = "query" THEN {reply.frame} ELSE {})

\* This step is the query whose retrieval is number n, and it ended in the
\* insufficient-context reply.
RepliedNow(n) == reply'.op = "query" /\ reply'.frame.no = n

\* The slots whose coroutine this step started with retrieval number n.
StartedNow(n) == {c \in CallIds : queries'[c].pc # "none" /\ queries'[c].no = n}

\* What the store of the current state may return for the exchange `frame`.
OutcomesFor(frame) ==
    RetrieveOutcomes(Store, embedder, frame.request.query, max_context_chunks,
                     frame.subject, frame.doc_type, frame.difficulty,
                     min_retrieval_score)

C5_QueryStep ==
    total_retrievals' = total_retrievals + 1 =>
        LET n == total_retrievals' IN
        /\ RepliedNow(n) <=> StartedNow(n) = {}
        /\ RepliedNow(n) =>
              /\ reply'.frame.retrieval_results \in OutcomesFor(reply'.frame)
              /\ reply'.frame.retrieval_results = <<>>
              /\ reply'.status = 200
              /\ reply'.body.answer = insufficient_context_answer
              /\ reply'.body.citations = <<>>
              /\ reply'.body.confidence = 0
              /\ reply'.frame.response.llm_response = 0
              /\ total_requests' = total_requests
              /\ calls' = calls
              /\ heap' = heap
        /\ \A c \in StartedNow(n) :
              /\ queries'[c].retrieval_results \in OutcomesFor(queries'[c])
              /\ queries'[c].retrieval_results # <<>>
              /\ total_requests' = total_requests + 1
              /\ calls'[c].req = total_requests'

C5_GenerateStep ==
    total_requests' # total_requests =>
        \E c \in CallIds :
            /\ calls'[c].req = total_requests'
            /\ queries'[c].pc # "none"
            /\ queries'[c].retrieval_results # <<>>
            /\ calls'[c].prompt =
                  BuildUserPrompt(queries'[c].request.query,
                                  FormatContext(queries'[c].retrieval_results),
                                  queries'[c].routing.intent)
            /\ \A i \in DOMAIN queries'[c].retrieval_results :
                  Contains(calls'[c].prompt,
                           queries'[c].retrieval_results[i].chunk.content)

\* C5: when retrieval returns no chunk the query is answered with the fixed
\* insufficient-context answer, no citations, confidence 0 and no LLM
\* response, and generate() is not invoked (total_requests is unchanged);
\* generate() is invoked only with a prompt built from at least one
\* retrieved chunk.
C5_NoContextNoGenerate == [][C5_QueryStep /\ C5_GenerateStep]_vars

\* C5 witness: a query on a store that holds chunks, none of which scores
\* 0.3, was answered with the insufficient-context reply and no generate()
\* call was made.
C5_Witness ==
    /\ chunks # <<>>
    /\ reply.op = "query"
    /\ reply.frame.retrieval_results = <<>>
    /\ reply.body.answer = insufficient_context_answer
    /\ \E k \in DOMAIN chunks :
          CosineSimilarity(Embed(embedder, reply.request.query),
                           embeddings[chunks[k].chunk_id]).num > 0
    /\ total_retrievals = 1
    /\ total_requests = 0

\* This step created the record of a query exchange for `request`.
HandledNow(request) ==
    \/ /\ reply' # reply
       /\ reply'.op = "query"
       /\ reply'.request = request
    \/ \E c \in CallIds :
          /\ queries[c].pc = "none"
          /\ queries'[c].pc # "none"
          /\ queries'[c].request = request

\* C6: a query the router routes to Algorithmic never invokes the RAG
\* Executor: handling it performs no retrieval and makes no Inference
\* Manager call.
C6_AlgorithmicSkipsExecutor ==
    [][\A request \in QueryRequests :
          (HandledNow(request) /\ QueryRouting[request].route = ALGORITHMIC) =>
             /\ total_retrievals' = total_retrievals
             /\ total_requests' = total_requests]_vars

\* C16: a query whose use_cache flag is false is answered without reading
\* or writing the response cache: no step of its coroutine is a cache hit,
\* and none changes the cache.
C16_FlagOffBypassesCache ==
    [][\A c \in CallIds :
          (/\ queries'[c] # queries[c]
           /\ queries'[c].pc # "none"
           /\ ~queries'[c].request.use_cache) =>
             /\ cache' = cache
             /\ ~calls'[c].hit
             /\ ~calls'[c].use_cache]_vars

\* The subject filter the claim gives an exchange: the subject argument when
\* one is given, else the routing decision's suggestion when there is one,
\* else none.
ExpectedSubject(frame) ==
    IF Truthy(frame.request.subject) THEN frame.request.subject
    ELSE IF "subject" \in DOMAIN frame.routing.suggested_filters
    THEN frame.routing.suggested_filters["subject"]
    ELSE NoneStr

\* The exchanges this step has created by running a retrieval.
CreatedNow ==
    IF total_retrievals' = total_retrievals THEN {}
    ELSE {queries'[c] : c \in StartedNow(total_retrievals')}
         \cup (IF RepliedNow(total_retrievals') THEN {reply'.frame} ELSE {})

\* C17: the subject filter execute() passes to retrieval is the subject
\* argument when one is given, the routing decision's suggested subject
\* when none is given and a suggestion exists, and none otherwise: the
\* chunks retrieved are those retrieval yields under that filter.
C17_SubjectArgumentWins ==
    [][\A frame \in CreatedNow :
          LET expected == ExpectedSubject(frame)
          IN /\ (Truthy(frame.subject) \/ Truthy(expected)) => frame.subject = expected
             /\ frame.retrieval_results \in
                   RetrieveOutcomes(Store, embedder, frame.request.query,
                                    max_context_chunks, expected, frame.doc_type,
                                    frame.difficulty, min_retrieval_score)]_vars

\* C17 witness: execute() was called with subject "Chemistry" and a routing
\* decision suggesting "physics", on a store whose Physics chunks answer
\* the query; retrieval ran under the Chemistry filter and found nothing.
C17_Witness ==
    /\ reply.op = "query"
    /\ reply.frame.request.subject = "Chemistry"
    /\ "subject" \in DOMAIN reply.frame.routing.suggested_filters
    /\ reply.frame.routing.suggested_filters["subject"] = "physics"
    /\ reply.frame.subject = "Chemistry"
    /\ reply.frame.retrieval_results = <<>>
    /\ <<>> \notin RetrieveOutcomes(Store, embedder, reply.request.query,
                                    max_context_chunks, "physics", NoneStr, NoneStr,
                                    min_retrieval_score)

\* score >= 0.3, by the numbers: num / sqrt(den2) >= 3 / 10
AtLeastThreeTenths(score) ==
    score.num >= 0 /\ 100 * score.num * score.num >= 9 * score.den2

\* x >= y for two similarities that are not negative
NotBelow(x, y) == x.num * x.num * y.den2 >= y.num * y.num * x.den2

\* C7: the result list of every retrieval is non-increasing in score, and
\* every score in it is at least min_score (0.3 for the executor).
C7_SortedAboveMinScore ==
    \A frame \in QueryExchanges :
        LET results == frame.retrieval_results
        IN /\ \A i \in DOMAIN results :
                 /\ results[i].score.den2 > 0
                 /\ AtLeastThreeTenths(results[i].score)
                 /\ results[i].rank = i
           /\ \A i, j \in DOMAIN results :
                 i < j => NotBelow(results[i].score, results[j].score)
           /\ Len(results) <= max_context_chunks

\* C7 witness: a retrieval returned two chunks of different scores and left
\* out a stored chunk that met every filter but scored below 0.3.
C7_Witness ==
    \E frame \in QueryExchanges :
        LET results == frame.retrieval_results
        IN /\ Len(results) >= 2
           /\ ~NotBelow(results[2].score, results[1].score)
           /\ ~Truthy(frame.subject)
           /\ ~Truthy(frame.doc_type)
           /\ ~Truthy(frame.difficulty)
           /\ Len(chunks) > Len(results)

\* C8: every retrieved chunk satisfies every filter the retrieval was given,
\* with respect to the subject (ignoring case), document type and
\* difficulty the chunk has at the time of the retrieval.
C8_ResultsMeetFilters ==
    \A frame \in QueryExchanges :
        \A i \in DOMAIN frame.retrieval_results :
            LET chunk == frame.retrieval_results[i].chunk
            IN /\ Truthy(frame.subject) => Lower(chunk.subject) = Lower(frame.subject)
               /\ Truthy(frame.doc_type) => chunk.doc_type = frame.doc_type
               /\ Truthy(frame.difficulty) => chunk.difficulty = frame.difficulty

\* The exchanges that execute() has answered from retrieved chunks.
GroundedExchanges ==
    {frame \in QueryExchanges :
        frame.pc = "answered" /\ frame.retrieval_results # <<>>}

HalfMilliFloor(score) ==
    ISqrtIn((4000000 * score.num * score.num) \div score.den2, 0, 2000)

\* 0.7 x mean(scores) + 0.3 x min(n / 3, 1) lies within 0.005 of h / 100.
\* Both sides are multiplied by 60000 n; each score s is bracketed by
\* floor(2000 s) / 2000 <= s < (floor(2000 s) + 1) / 2000.
RoundsTo(results, h) ==
    LET n == Len(results)
        low == Sum([i \in DOMAIN results |-> HalfMilliFloor(results[i].score)])
        high == low + n
        source == IF n >= 3 THEN 18000 * n ELSE 6000 * n * n
    IN /\ 600 * n * h >= 21 * low + source - 300 * n
       /\ 600 * n * h <= 21 * high + source + 300 * n

OutsideEnum(value, members) == Truthy(value) /\ value \notin members

\* The filter the claim gives a request value: none for a value outside the
\* enumeration, the filter the handler passed otherwise.
FilterOrAbsent(value, members, passed) ==
    IF OutsideEnum(value, members) THEN NoneStr ELSE passed

\* C20: a query whose doc_type or difficulty value is outside the closed
\* enumeration is processed as if that filter had not been supplied: the
\* retrieval runs, with that filter absent, and the query does not fail.
C20_UnknownFilterDropped ==
    [][\A frame \in CreatedNow :
          LET request == frame.request
          IN (\/ OutsideEnum(request.doc_type, DocumentType)
              \/ OutsideEnum(request.difficulty, Difficulty)) =>
                /\ OutsideEnum(request.doc_type, DocumentType) =>
                       frame.doc_type = NoneStr
                /\ OutsideEnum(request.difficulty, Difficulty) =>
                       frame.difficulty = NoneStr
                /\ frame.retrieval_results \in
                      RetrieveOutcomes(Store, embedder, request.query,
                          max_context_chunks, frame.subject,
                          FilterOrAbsent(request.doc_type, DocumentType, frame.doc_type),
                          FilterOrAbsent(request.difficulty, Difficulty, frame.difficulty),
                          min_retrieval_score)
                /\ frame.pc \in {"generating", "answered"}
                /\ frame.pc = "answered" => frame.status = 200
                /\ RepliedNow(frame.no) => reply'.status = 200]_vars

\* C20 witness: a query with difficulty "hard", which is no member of
\* Difficulty, was answered from retrieved chunks, none of which has the
\* difficulty asked for.
C20_Witness ==
    \E frame \in GroundedExchanges :
        /\ OutsideEnum(frame.request.difficulty, Difficulty)
        /\ frame.difficulty = NoneStr
        /\ \A i \in DOMAIN frame.retrieval_results :
              frame.retrieval_results[i].chunk.difficulty # frame.request.difficulty

\* The chunk ids of a processed document, in order.
ChunkIdsOf(processed) ==
    [k \in DOMAIN processed.chunks |-> processed.chunks[k].chunk_id]

\* C9: ingesting the same file name and the same text twice under one
\* configuration gives the same doc_id and the same sequence of chunk ids;
\* a chunk id depends only on the file name, the first 100 characters of
\* the chunk and its index, and a doc_id only on the text.
C9_IdsAreDeterministic ==
    \A i, j \in DOMAIN ingested :
        LET a == ingested[i]
            b == ingested[j]
        IN /\ (a.path = b.path /\ a.text = b.text /\ a.pipeline = b.pipeline) =>
                 /\ a.processed.doc_id = b.processed.doc_id
                 /\ ChunkIdsOf(a.processed) = ChunkIdsOf(b.processed)
           /\ a.text = b.text => a.processed.doc_id = b.processed.doc_id
           /\ \A k \in DOMAIN a.processed.chunks, m \in DOMAIN b.processed.chunks :
                 LET x == a.processed.chunks[k]
                     y == b.processed.chunks[m]
                 IN (/\ a.path = b.path
                     /\ Prefix(x.content, 100) = Prefix(y.content, 100)
                     /\ x.chunk_index = y.chunk_index) => x.chunk_id = y.chunk_id

\* C9 witness: the same text was ingested twice under the same name, at
\* different times and for different subjects, into two chunks each time.
C9_Witness ==
    \E i, j \in DOMAIN ingested :
        /\ i < j
        /\ ingested[i].path = ingested[j].path
        /\ ingested[i].text = ingested[j].text
        /\ ingested[i].processed.timestamp # ingested[j].processed.timestamp
        /\ ingested[i].processed.subject # ingested[j].processed.subject
        /\ Len(ingested[i].processed.chunks) = 2
        /\ ChunkIdsOf(ingested[i].processed) = ChunkIdsOf(ingested[j].processed)

(***************************************************************************)
(* Claims about the Query Router.                                          *)
(***************************************************************************)
\* The query as _classify_query receives it.
Normalized(query) == Strip(Lower(query))

MatchesCategory(patterns, query) ==
    \E k \in 1..Len(patterns) : Search(patterns[k], Normalized(query))

\* The intent of the earliest pattern of the list that matches.
EarliestIntent(patterns, query) ==
    patterns[CHOOSE k \in 1..Len(patterns) :
        /\ Search(patterns[k], Normalized(query))
        /\ \A m \in 1..Len(patterns) :
              Search(patterns[m], Normalized(query)) => k <= m].intent

\* C10: a query that matches at least one document-grounded pattern is
\* routed to RAG with the intent of the first document-grounded pattern it
\* matches, whether or not it also matches a planning/analytics or a
\* reasoning pattern.
C10_RagPatternsFirst ==
    reply.op = "route-preview" =>
        (MatchesCategory(rag_patterns, reply.request.query) =>
            /\ reply.body.route = RAG
            /\ reply.body.confidence = 85
            /\ reply.body.intent = EarliestIntent(rag_patterns, reply.request.query))

\* C10 witness: a query with a define cue and a schedule cue, matching a
\* document-grounded and a planning pattern, was previewed as RAG.
C10_Witness ==
    /\ reply.op = "route-preview"
    /\ Contains(Normalized(reply.request.query), "define")
    /\ Contains(Normalized(reply.request.query), "schedule")
    /\ MatchesCategory(rag_patterns, reply.request.query)
    /\ MatchesCategory(algorithmic_patterns, reply.request.query)
    /\ reply.body.route = RAG
    /\ reply.body.intent = "definition_lookup"

\* The (intent, route, confidence) the categories give a query, read off
\* the pattern tables category by category.
ExpectedClassification(query) ==
    IF MatchesCategory(rag_patterns, query)
    THEN [intent |-> EarliestIntent(rag_patterns, query),
          route |-> RAG, confidence |-> 85]
    ELSE IF MatchesCategory(algorithmic_patterns, query)
    THEN [intent |-> EarliestIntent(algorithmic_patterns, query),
          route |-> ALGORITHMIC, confidence |-> 80]
    ELSE IF MatchesCategory(reasoning_patterns, query)
    THEN LET intent == EarliestIntent(reasoning_patterns, query)
         IN IF intent \in {"problem_solving", "comparison_analysis"}
            THEN [intent |-> intent, route |-> HYBRID, confidence |-> 75]
            ELSE [intent |-> intent, route |-> REASONING_LLM, confidence |-> 80]
    ELSE IF \E k \in 1..Len(academic_indicators) :
               Contains(Normalized(query), academic_indicators[k])
    THEN [intent |-> "concept_clarification", route |-> RAG, confidence |-> 60]
    ELSE [intent |-> "general_chat", route |-> REASONING_LLM, confidence |-> 50]

\* C11: route() returns the outcome of the first category that matches:
\* RAG at 0.85 for a document-grounded pattern, Algorithmic at 0.80 for a
\* planning/analytics pattern, for a reasoning pattern Hybrid at 0.75 when
\* the intent is problem solving or comparison and ReasoningLLM at 0.80
\* otherwise, RAG / concept clarification at 0.60 when no pattern matches
\* but an academic indicator occurs in the query, and ReasoningLLM /
\* general chat at 0.50 otherwise.
C11_RouteOutcomes ==
    reply.op = "route-preview" =>
        LET expected == ExpectedClassification(reply.request.query)
        IN /\ reply.body.route = expected.route
           /\ reply.body.confidence = expected.confidence
           /\ reply.body.intent = expected.intent

\* C11 witness: a query with a comparison cue and an academic indicator,
\* matching no document-grounded and no planning pattern, was previewed as
\* Hybrid at 0.75.
C11_Witness ==
    /\ reply.op = "route-preview"
    /\ ~MatchesCategory(rag_patterns, reply.request.query)
    /\ ~MatchesCategory(algorithmic_patterns, reply.request.query)
    /\ MatchesCategory(reasoning_patterns, reply.request.query)
    /\ EarliestIntent(reasoning_patterns, reply.request.query) = "comparison_analysis"
    /\ Contains(Normalized(reply.request.query), "learn")
    /\ reply.body.route = HYBRID
    /\ reply.body.confidence = 75

(***************************************************************************)
(* Claims about the contents of the Vector Store over time.               *)
(***************************************************************************)
\* The chunk ids of the chunk map cs.
StoredIds(cs) == {cs[k].chunk_id : k \in DOMAIN cs}

\* Every chunk_id listed by `index` is listed under the same key by `later`.
IndexKept(index, later) ==
    \A k \in DOMAIN index :
        Range(index[k].ids) \subseteq Range(IndexGet(later, index[k].key))

\* Every stored chunk has an embedding and is listed in the three indexes
\* under the keys of the metadata it is stored with.
C21_Indexed ==
    \A k \in DOMAIN chunks :
        LET chunk == chunks[k]
        IN /\ chunk.chunk_id \in DOMAIN embeddings
           /\ chunk.chunk_id \in Range(IndexGet(by_subject, Lower(chunk.subject)))
           /\ chunk.chunk_id \in Range(IndexGet(by_doc_type, chunk.doc_type))
           /\ chunk.chunk_id \in Range(IndexGet(by_topic, Lower(chunk.topic)))

\* A step that is not a clear keeps every chunk_id in the chunk map, in the
\* embedding map and in each index list that holds it.
C21_KeptStep ==
    \/ reply'.op = "clear" /\ Store' = EmptyStore
    \/ /\ StoredIds(chunks) \subseteq StoredIds(chunks')
       /\ DOMAIN embeddings \subseteq DOMAIN embeddings'
       /\ IndexKept(by_subject, by_subject')
       /\ IndexKept(by_doc_type, by_doc_type')
       /\ IndexKept(by_topic, by_topic')

\* After a clear the store is empty and every retrieve returns [].
C21_EmptyAfterClear ==
    reply.op = "clear" =>
        /\ Store = EmptyStore
        /\ \A request \in QueryRequests :
              RetrieveOutcomes(Store, embedder, request.query, max_context_chunks,
                               request.subject, NoneStr, NoneStr,
                               [num |-> 0, den2 |-> 1]) = {<<>>}

\* C21: a chunk_id, once added, stays in the chunk map, the embedding map
\* and the subject, doc_type and topic index lists through every further
\* add_chunks and retrieve; only clear removes chunks, and after clear the
\* maps and the three indexes are empty and every retrieve returns [].
C21_ChunksStayUntilClear ==
    [] (C21_Indexed /\ C21_EmptyAfterClear) /\ [][C21_KeptStep]_vars

\* C21 witness: two documents of different chunk ids were ingested and a
\* retrieval has run; the chunks of both are in the store, and one doc_type
\* key lists chunks of both.
C21_Witness ==
    /\ Len(ingested) = 2
    /\ total_retrievals = 1
    /\ LET ids(d) == {ingested[d].processed.chunks[i].chunk_id :
                         i \in DOMAIN ingested[d].processed.chunks}
       IN /\ ids(1) # {} /\ ids(2) # {}
          /\ ids(1) \cap ids(2) = {}
          /\ ids(1) \cup ids(2) = StoredIds(chunks)
          /\ \E k \in DOMAIN by_doc_type :
                /\ Range(by_doc_type[k].ids) \cap ids(1) # {}
                /\ Range(by_doc_type[k].ids) \cap ids(2) # {}

\* The place of chunk_id in the insertion order of the chunk map.
InsertionIndex(chunk_id) ==
    CHOOSE k \in DOMAIN chunks : chunks[k].chunk_id = chunk_id

\* Two similarities are equal.
SameScore(x, y) == ScoreGeq(x, y) /\ ScoreGeq(y, x)

\* The candidate `id` of score `score` comes before the result r in the
\* order by falling score and, among equal scores, by insertion.
ComesBefore(id, score, r) ==
    \/ ~ScoreGeq(r.score, score)
    \/ /\ SameScore(score, r.score)
       /\ InsertionIndex(id) < InsertionIndex(r.chunk.chunk_id)

\* C22: among candidates of equal score retrieve returns the chunks in the
\* order of their insertion into the store, and the results are the top_k
\* of the order by score and insertion, with ranks 1, 2, ..., n.
C22_TiesInInsertionOrder ==
    [][\A frame \in CreatedNow :
          LET results == frame.retrieval_results
              query_embedding == Embed(embedder, frame.request.query)
              candidates == FilteredCandidates(Store, frame.subject, frame.doc_type,
                                               frame.difficulty)
              returned == {results[i].chunk.chunk_id : i \in DOMAIN results}
          IN /\ \A i \in DOMAIN results : results[i].rank = i
             /\ \A i, j \in DOMAIN results :
                   (i < j /\ SameScore(results[i].score, results[j].score)) =>
                       InsertionIndex(results[i].chunk.chunk_id)
                           < InsertionIndex(results[j].chunk.chunk_id)
             /\ \A id \in candidates \ returned :
                   LET score == CosineSimilarity(query_embedding, embeddings[id])
                   IN MeetsMinScore(score, min_retrieval_score) =>
                         /\ Len(results) = max_context_chunks
                         /\ \A i \in DOMAIN results :
                               ~ComesBefore(id, score, results[i])]_vars

\* Two embeddings are equal once each is divided by its norm: they have the
\* same nonzero components, in proportion and with the same signs.
SameDirection(a, b) ==
    /\ DOMAIN a = DOMAIN b
    /\ \A i, j \in DOMAIN a : a[i] * b[j] = a[j] * b[i]
    /\ \A i \in DOMAIN a : (a[i] > 0) = (b[i] > 0)

\* C23: after every add_chunks call each stored embedding is the embedding
\* of its chunk's content under the embedder as it is now, so that a batch
\* that refits the vocabulary leaves no embedding of an earlier model.
C23_EmbeddingsOfCurrentModel ==
    \A k \in DOMAIN chunks :
        SameDirection(embeddings[chunks[k].chunk_id],
                      Embed(embedder, chunks[k].content))

\* The content and the metadata of a chunk, without the time of ingestion.
ContentAndMetadata(chunk) ==
    [content |-> chunk.content, subject |-> chunk.subject,
     doc_type |-> chunk.doc_type, topic |-> chunk.topic,
     difficulty |-> chunk.difficulty, source_file |-> chunk.source_file,
     page_number |-> chunk.page_number, chunk_index |-> chunk.chunk_index,
     word_count |-> chunk.word_count]

\* C24: a chunk is not mutated after creation: the content and the metadata
\* a stored chunk_id maps to stay the same through every later ingestion
\* until a clear; changed material gets new chunk_ids.
C24_ChunksNeverMutated ==
    [][\A k \in DOMAIN chunks : \A m \in DOMAIN chunks' :
          chunks'[m].chunk_id = chunks[k].chunk_id =>
              ContentAndMetadata(chunks'[m]) = ContentAndMetadata(chunks[k])]_vars

(***************************************************************************)
(* Claims about the chunking of the Ingestion Pipeline.                    *)
(***************************************************************************)
\* The smaller of two numbers.
Min(a, b) == IF a < b THEN a ELSE b

\* The words of the chunks of a processed document, chunk by chunk.
ChunkWords(processed) ==
    [i \in DOMAIN processed.chunks |-> Split(processed.chunks[i].content)]

\* The window of `size` words of `words` that starts after word `start`.
Window(words, start, size) ==
    Join(SubSeq(words, start + 1, Min(start + size, Len(words))), " ")

\* What the claim says of one document: no chunk has more than chunk_size
\* words, every word of the text is in a chunk, and a paragraph of more
\* than chunk_size words has a chunk for the window of chunk_size words at
\* every multiple of chunk_size - chunk_overlap below its length.
ChunkedWithinSize(doc) ==
    LET size == doc.pipeline.chunk_size
        step == doc.pipeline.chunk_size - doc.pipeline.chunk_overlap
        chunk_words == ChunkWords(doc.processed)
        words == Split(doc.text)
        paragraphs == SplitNewlines(doc.text, 2)
    IN /\ \A i \in DOMAIN chunk_words : Len(chunk_words[i]) <= size
       /\ \A p \in DOMAIN words :
             \E i \in DOMAIN chunk_words : words[p] \in Range(chunk_words[i])
       /\ \A k \in DOMAIN paragraphs :
             LET para_words == Split(paragraphs[k])
             IN Len(para_words) > size =>
                   \A j \in 0..((Len(para_words) - 1) \div step) :
                       \E i \in DOMAIN chunk_words :
                           doc.processed.chunks[i].content
                               = Window(para_words, j * step, size)

\* C25: under a configuration with chunk_overlap < chunk_size chunking ends
\* without an error, no chunk has more than chunk_size words, every word of
\* the source is in at least one chunk, and an over-long paragraph is split
\* into windows of at most chunk_size words that start every
\* chunk_size - chunk_overlap words.
C25_ChunksWithinSize ==
    pipeline.chunk_overlap < pipeline.chunk_size =>
        /\ reply.op = "upload-text" => reply.status = 200
        /\ Len(ingested) = clock
        /\ \A d \in DOMAIN ingested : ChunkedWithinSize(ingested[d])

\* C25 witness: a paragraph of seven words was chunked with chunk_size 3
\* and chunk_overlap 1 into four windows, the third word being in two.
C25_Witness ==
    \E d \in DOMAIN ingested :
        LET chunk_words == ChunkWords(ingested[d].processed)
        IN /\ ingested[d].pipeline = [chunk_size |-> 3, chunk_overlap |-> 1]
           /\ ingested[d].text = "a law of the body at rest"
           /\ Len(chunk_words) = 4
           /\ chunk_words[1] = <<"a", "law", "of">>
           /\ chunk_words[2] = <<"of", "the", "body">>
           /\ chunk_words[4] = <<"rest">>

\* The text of each page of an uploaded file, as the pipeline reads it: the
\* cleaned text of every page of a PDF, the whole body of a text file.
PagesOf(file) ==
    IF Lower(SplitExtExt(file.filename)) = ".pdf"
    THEN [p \in DOMAIN file.pages |-> CleanText(file.pages[p])]
    ELSE <<file.content>>

\* C26: in every ProcessedDocument the i-th chunk (from 0) has chunk_index
\* i, counted across all pages; no chunk combines text of two pages, each
\* chunk's page_number is the 1-based page it was extracted from, and
\* page_number does not decrease along the chunks.
C26_IndexAndPageOfChunks ==
    /\ \A d \in DOMAIN ingested :
          LET cs == ingested[d].processed.chunks
          IN /\ \A i \in DOMAIN cs : cs[i].chunk_index = i - 1
             /\ \A i, j \in DOMAIN cs :
                   i < j => cs[i].page_number <= cs[j].page_number
    /\ (reply.op = "upload" /\ reply.status = 200) =>
          LET cs == ingested[Len(ingested)].processed.chunks
              pages == PagesOf(reply.request)
          IN \A i \in DOMAIN cs :
                /\ cs[i].page_number \in DOMAIN pages
                /\ Range(Split(cs[i].content))
                      \subseteq Range(Split(pages[cs[i].page_number]))

\* C27: ingesting a text without readable content (empty or whitespace
\* only) raises no error and gives a ProcessedDocument of zero chunks, so
\* that every chunk ever emitted has word_count >= 1.
C27_BlankTextGivesNoChunk ==
    /\ \A d \in DOMAIN ingested :
          LET doc == ingested[d]
          IN /\ Split(doc.text) = <<>> =>
                   /\ doc.processed.chunks = <<>>
                   /\ doc.processed.total_chunks = 0
             /\ \A i \in DOMAIN doc.processed.chunks :
                   doc.processed.chunks[i].word_count >= 1
    /\ (reply.op = "upload-text" /\ Split(reply.request.content) = <<>>
          /\ pipeline.chunk_overlap < pipeline.chunk_size) => reply.status = 200

(***************************************************************************)
(* Claims about the metrics of the LLM Manager under concurrent calls      *)
(***************************************************************************)

\* The calls that are suspended in a provider call.
InFlight(cs) == {c \in CallIds : cs[c].pc = "awaiting"}

\* The calls answered from the cache in this step.
HitsNow == {c \in CallIds : HitNow(c)}

\* The sum of all provider_usage counts.
UsageTotal(usage) ==
    SumOver([q \in LLMProvider |-> UsageOf(usage, q)], LLMProvider)

\* One step of the manager: what total_requests gains is what
\* successful_requests and failed_requests gain, plus the cache hits served
\* in the step, plus the change in the number of calls in flight.
C28_RequestStep ==
    total_requests' - total_requests =
        (successful_requests' - successful_requests)
      + (failed_requests' - failed_requests)
      + Cardinality(HitsNow)
      + (Cardinality(InFlight(calls')) - Cardinality(InFlight(calls)))

\* In every state the finished requests are no more than the requests made
\* and every success is counted for one provider; while no call is in
\* flight and every request is on record, the requests made are the
\* successes, the failures and the cache hits on record.
C28_Totals ==
    /\ successful_requests + failed_requests <= total_requests
    /\ successful_requests = UsageTotal(provider_usage)
    /\ (InFlight(calls) = {} /\ AllOnRecord) =>
          total_requests = successful_requests + failed_requests
                           + Cardinality({c \in CallIds : calls[c].hit})

SubjectOnly(routing) ==
    [routing EXCEPT !.suggested_filters =
        [k \in DOMAIN @ \cap {"subject"} |-> @[k]]]

\* The calls of ExecuteCalls that differ from the exchange `frame` in the
\* suggested doc_type or topic at most.
Alike(frame) ==
    {call \in ExecuteCalls :
        /\ call.query = frame.request.query
        /\ call.subject = frame.request.subject
        /\ call.doc_type = frame.request.doc_type
        /\ call.difficulty = frame.request.difficulty
        /\ SubjectOnly(call.routing) = SubjectOnly(frame.routing)}

\* C29: the Executor takes only the subject from the suggested filters: the
\* chunks an execute call retrieves are those retrieval yields for the call
\* with the suggested doc_type and topic taken out, so two execute calls on
\* the same store that differ only in the suggested doc_type or topic
\* retrieve the same chunks.
C29_OnlySubjectSuggestionRead ==
    [][\A frame \in CreatedNow :
          LET plain == [frame EXCEPT !.routing = SubjectOnly(@)]
          IN /\ frame.retrieval_results \in
                   RetrieveOutcomes(Store, embedder, frame.request.query,
                                    max_context_chunks, ExpectedSubject(plain),
                                    frame.doc_type, frame.difficulty,
                                    min_retrieval_score)
             /\ \A call \in Alike(frame) :
                   frame.retrieval_results \in
                      ExecuteRetrieval(call.query, call.routing, call.subject,
                                       call.doc_type, call.difficulty)]_vars

\* C29 witness: execute() was called with a suggested doc_type that no chunk
\* of the store has and retrieved the Physics chunks that answer the query.
C29_Witness ==
    \E c \in CallIds :
        /\ queries[c].pc # "none"
        /\ "doc_type" \in DOMAIN queries[c].routing.suggested_filters
        /\ queries[c].retrieval_results # <<>>
        /\ FilteredCandidates(Store, queries[c].subject,
                              queries[c].routing.suggested_filters["doc_type"],
                              NoneStr) = {}

(***************************************************************************)
(* Claims about chunk ids that are added more than once                    *)
(***************************************************************************)

\* The chunk ids of the chunks of the list new_chunks.
IdsOf(new_chunks) == {new_chunks[i].chunk_id : i \in DOMAIN new_chunks}

\* The list ids holds the same chunk_id at two places.
ListedTwice(ids) == \E i, j \in DOMAIN ids : i < j /\ ids[i] = ids[j]

\* No result list of a retrieval on record holds a chunk_id twice.
NoChunkTwice ==
    \A frame \in QueryExchanges :
        LET results == frame.retrieval_results
        IN \A i, j \in DOMAIN results :
              i # j => results[i].chunk.chunk_id # results[j].chunk.chunk_id

\* One step of the store: a clear leaves no chunk_id, an add_chunks call
\* adds the chunk ids of its chunks to those stored, and every other step
\* leaves them alone.
C30_AddStep ==
    IF reply'.op = "clear" THEN StoredIds(chunks') = {}
    ELSE IF ingested' # ingested
    THEN StoredIds(chunks') =
            StoredIds(chunks) \cup IdsOf(ingested'[Len(ingested')].processed.chunks)
    ELSE StoredIds(chunks') = StoredIds(chunks)

\* C30: after any sequence of add_chunks calls, also ones that add a
\* chunk_id again, no retrieve result contains the same chunk_id twice and
\* total_chunks of get_stats is the number of distinct chunk ids added
\* since the last clear.
C30_DistinctIdsCounted ==
    /\ [] (/\ NoChunkTwice
           /\ GetStats(Store, total_retrievals).total_chunks
                 = Cardinality(StoredIds(chunks)))
    /\ [][C30_AddStep]_vars

\* C30 witness: a document was ingested twice, so that an index list holds
\* its chunk_id twice; the retrieval that followed returned the chunk, and
\* total_chunks is less than the number of chunks added.
C30_Witness ==
    /\ Len(ingested) = 2
    /\ ingested[1].processed.chunks # <<>>
    /\ IdsOf(ingested[1].processed.chunks) = IdsOf(ingested[2].processed.chunks)
    /\ \E k \in DOMAIN by_subject : ListedTwice(by_subject[k].ids)
    /\ GetStats(Store, total_retrievals).total_chunks
          < Len(ingested[1].processed.chunks) + Len(ingested[2].processed.chunks)
    /\ \E frame \in QueryExchanges :
          \E i \in DOMAIN frame.retrieval_results :
             frame.retrieval_results[i].chunk.chunk_id
                \in IdsOf(ingested[1].processed.chunks)


=============================================================================
